---- MODULE Spec2Model ----
(***************************************************************************)
(* Model of the agent manager of the proxy                                 *)
(* (crates/proxy/src/agents/manager.rs): per-agent semaphores, breaker     *)
(* checks, the parallel fan-out used for request headers, the sequential   *)
(* dispatch used for body chunks and response headers, WebSocket frame     *)
(* dispatch and guardrail calls.                                           *)
(***************************************************************************)
EXTENDS Integers, Sequences, FiniteSets, TLC

\* ------------------------------------------------------------------ bounds
MaxTasks == 2          \* concurrent callers of the manager
MaxStarts == 3         \* manager calls started in one behaviour
MaxPermits == 1        \* largest max_concurrent_calls configured
FailureThreshold == 2  \* consecutive failures that open a breaker
MaxEvents == 3         \* send_event calls on one agent connection
MaxChunkLen == 2       \* bytes of a body chunk sent through a connection
MaxDataLen == 4        \* bytes (or characters) of the data of a converted event
MaxMessages == 3       \* messages a server connection reads
MaxEncodings == 2      \* encodings a handshake request lists
MaxHeaderValues == 2   \* values held under one header name
MaxChunkIndex == 4     \* highest chunk_index of a body mutation
MaxRecorders == 2      \* threads recording into one histogram
MaxObservations == 3   \* observations recorded into one histogram

Tasks == 1..MaxTasks
Agents == {"waf", "ratelimit"}
FailureModes == {"Open", "Closed"}

\* ------------------------------------------------------- protocol values
PROTOCOL_VERSION == 2
MAX_MESSAGE_SIZE == 10 * 1024 * 1024

EventTypes == {"RequestHeaders", "RequestBodyChunk", "ResponseHeaders",
               "ResponseBodyChunk", "WebSocketFrame", "GuardrailInspect"}

\* Every variant of the EventType enum.
AllEventTypes == EventTypes \cup {"Configure", "RequestComplete"}

Allow == [kind |-> "Allow", status |-> 0, body |-> ""]
Block(status, body) == [kind |-> "Block", status |-> status, body |-> body]
Redirect(url, status) == [kind |-> "Redirect", status |-> status, body |-> url]
Challenge(challenge_type) == [kind |-> "Challenge", status |-> 0, body |-> challenge_type]

HeaderOp(op, name, value) == [op |-> op, name |-> name, value |-> value]

\* BodyMutation {data: Option<String>, chunk_index}; NoMutation is the None of
\* Option<BodyMutation>.
NoMutation == [some |-> FALSE, has_data |-> FALSE, data |-> "", chunk_index |-> 0]
pass_through(chunk_index) ==
    [some |-> TRUE, has_data |-> FALSE, data |-> "", chunk_index |-> chunk_index]
drop_chunk(chunk_index) ==
    [some |-> TRUE, has_data |-> TRUE, data |-> "", chunk_index |-> chunk_index]
replace(chunk_index, data) ==
    [some |-> TRUE, has_data |-> TRUE, data |-> data, chunk_index |-> chunk_index]

\* BodyMutation::is_pass_through: data.is_none().
is_pass_through(m) == ~m.has_data

\* BodyMutation::is_drop: matches!(data, Some(d) if d.is_empty()).
is_drop_AnyData(m) == m.has_data
is_drop(m) == m.has_data /\ m.data = ""

\* AgentResponse: the fields of a response the manager looks at.
AgentResponse(decision, request_headers, websocket_decision) ==
    [decision |-> decision, request_headers |-> request_headers,
     websocket_decision |-> websocket_decision, request_body_mutation |-> NoMutation]

with_request_body_mutation(self, mutation) ==
    [self EXCEPT !.request_body_mutation = mutation]

WsNone == [kind |-> "None", code |-> 0, reason |-> ""]
WsAllow == [kind |-> "Allow", code |-> 0, reason |-> ""]
WsDrop == [kind |-> "Drop", code |-> 0, reason |-> ""]
WsClose(code, reason) == [kind |-> "Close", code |-> code, reason |-> reason]

default_allow_response == AgentResponse(Allow, <<>>, WsNone)
websocket_allow == AgentResponse(Allow, <<>>, WsAllow)
websocket_close(code, reason) == AgentResponse(Allow, <<>>, WsClose(code, reason))

\* ------------------------------------------------------- AgentDecision
AgentDecision(action, request_headers) ==
    [action |-> action, request_headers |-> request_headers]

default_allow == AgentDecision(Allow, <<>>)
block(status, body) == AgentDecision(Block(status, body), <<>>)
is_allow(d) == d.action.kind = "Allow"

\* From<AgentResponse> for AgentDecision
FromResponse(r) == AgentDecision(r.decision, r.request_headers)

Strength(action) ==
    CASE action.kind = "Allow" -> 0
      [] action.kind = "Block" -> 2
      [] OTHER -> 1

\* AgentDecision::merge
merge(self, other) ==
    AgentDecision(IF Strength(other.action) > Strength(self.action)
                  THEN other.action ELSE self.action,
                  self.request_headers \o other.request_headers)

\* ----------------------------------------------------------- inputs
\* Header operations an agent attaches to an Allow response.
OpsOf(a) == <<HeaderOp("set", "x-agent", a), HeaderOp("add", "x-seen", a)>>

\* Responses an agent may give to a request/response event.
Responses(a) ==
    { AgentResponse(Allow, OpsOf(a), WsNone) }
    \cup (IF a = "waf"
          THEN { AgentResponse(Block(403, "blocked"), <<>>, WsNone),
                 AgentResponse(Redirect("/login", 302), <<>>, WsNone) }
          ELSE { AgentResponse(Block(429, "slow down"), <<>>, WsNone),
                 AgentResponse(Challenge("captcha"), <<>>, WsNone) })

\* Texts of the errors agent.call_event may return (Display of the error).
AgentErrors ==
    { <<"gRPC call failed:", "connection refused">>,
      <<"gRPC call failed:", "status: Internal", "Timeout", "loading rules">> }

\* Routes: ordered filter chains of (agent_id, failure_mode), no agent twice.
RouteEntries == [id : Agents, failure_mode : FailureModes]

Routes ==
    { <<e>> : e \in RouteEntries }
    \cup { r \in { <<e, f>> : e \in RouteEntries, f \in RouteEntries } : r[1].id # r[2].id }

\* ------------------------------------------------------------- state
VARIABLES
    cfg,        \* agent id -> AgentConfig (fixed after AgentManager::new)
    permits,    \* agent id -> available permits of the agent's semaphore
    breaker,    \* agent id -> circuit breaker [state, failures]
    recorded,   \* agent id -> number of record_success/failure/timeout calls
    delivered,  \* agent id -> number of events handed to agent.call_event
    started,    \* manager calls started so far
    pc,         \* task -> "idle" | "running" | "done"
    path,       \* task -> dispatch path of the running call
    event,      \* task -> event type of the running call
    futs,       \* task -> sequence of per-agent calls of the running call
    idx,        \* task -> position of the loop over agents / results
    combined,   \* task -> combined_decision
    result,     \* task -> value the manager call returned
    payload,    \* task -> body chunk carried by the event of the running call
    last_chunk  \* task -> agent id -> chunk_index of the last request body chunk
                \* handed to the agent for the task's request (-1: none yet)

managerVars == <<cfg, permits, breaker, recorded, delivered, started, pc, path, event, futs,
                 idx, combined, result, payload, last_chunk>>

\* One AgentClient over a Unix socket and the agent at the other end.
VARIABLES
    client,          \* the send_event call: [pc, calls, event, ret] and, of this
                     \* call, the request size, the bytes written to the socket,
                     \* the length prefix read (-1: none) and the payload bytes read
    wire_to_agent,   \* request frames written to the socket, unread by the agent
    wire_to_client   \* response frames written by the agent, unread by the client

clientVars == <<client, wire_to_agent, wire_to_client>>

\* One AgentClient over a gRPC connection.
VARIABLES
    grpc             \* the last send_event call: [calls, event_type, chunk, request,
                     \* reached, timer, ret]

\* The conversions between the binary and the base64/JSON body-chunk events.
VARIABLES
    conv             \* the last conversion: [op, input, output]

\* One connection of the UDS v2 agent server (handle_connection).
VARIABLES
    conn             \* [pc, reads, first, success, handshakes, events, written, last,
                     \*  event_cid, offered, binary_uds, encoding, ret]

\* The GuardrailProcessor of the inference routes.
VARIABLES
    guard            \* the last check: [check, config, detects, outcome, result]

\* A HeadersCow and the last mutation made on it.
VARIABLES
    cow              \* [inner, before, op, name, value]

\* A body chunk, the mutation an agent answered for it and what is forwarded.
VARIABLES
    forward          \* [made, index, mutation, original, forwarded]

\* A HistogramMetric, the threads recording into it and the snapshot being taken.
VARIABLES
    hist             \* [counts, sum, count, rec, records, counted, snap]

\* The messages a connection read and wrote in its event loop, in order.
VARIABLES
    served           \* [inbox, outbox]

\* The variables each part of the model leaves alone.
outsideManager == <<clientVars, grpc, conv, conn, guard, cow, forward, hist, served>>
outsideClient == <<managerVars, grpc, conv, conn, guard, cow, forward, hist, served>>
outsideGrpc == <<managerVars, clientVars, conv, conn, guard, cow, forward, hist, served>>
outsideCodec == <<managerVars, clientVars, grpc, conn, guard, cow, forward, hist, served>>
outsideServer == <<managerVars, clientVars, grpc, conv, guard, cow, forward, hist, served>>
outsideGuardrails == <<managerVars, clientVars, grpc, conv, conn, cow, forward, hist, served>>
outsideHeaders == <<managerVars, clientVars, grpc, conv, conn, guard, forward, hist, served>>
outsideMutation == <<managerVars, clientVars, grpc, conv, conn, guard, cow, hist, served>>
outsideHistogram == <<managerVars, clientVars, grpc, conv, conn, guard, cow, forward, served>>
outsideServed == <<managerVars, clientVars, grpc, conv, guard, cow, forward, hist>>

vars == <<managerVars, clientVars, grpc, conv, conn, guard, cow, forward, hist, served>>

NoReason == <<>>
NoOutcome == [tag |-> "none", resp |-> default_allow_response, reason |-> NoReason]
OkOutcome(resp) == [tag |-> "ok", resp |-> resp, reason |-> NoReason]
ErrOutcome(reason) == [tag |-> "err", resp |-> default_allow_response, reason |-> reason]

\* The body chunk of a RequestBodyChunkEvent / ResponseBodyChunkEvent; NoPayload
\* for the events that carry no chunk.
Chunk(chunk_index, data, bytes_received) ==
    [chunk_index |-> chunk_index, data |-> data, bytes_received |-> bytes_received]
NoPayload == Chunk(0, "", 0)

BodyEvents == {"RequestBodyChunk", "ResponseBodyChunk"}

\* One agent call of a manager call: the agent, the failure mode the code
\* applies to it, the failure mode paired with the agent in the route's filter
\* chain ("None" when the route does not name the agent), its position in the
\* call's state machine, whether it holds a permit, what it recorded on the
\* breaker, its outcome, its rank among the completed calls of the manager
\* call (0 until it completes), and the chunk the agent was handed.
Fut(agent, failure_mode, filter_failure_mode) ==
    [agent |-> agent, failure_mode |-> failure_mode,
     filter_failure_mode |-> filter_failure_mode, st |-> "queued",
     permit |-> FALSE, rec |-> <<>>, out |-> NoOutcome, nth |-> 0, sent |-> NoPayload]

NoResult == [tag |-> "none"]
OkDecision(d) == [tag |-> "ok", decision |-> d]
OkResponse(r) == [tag |-> "ok", response |-> r]
ErrResult(e) == [tag |-> "err", error |-> e]

\* What send_event returned: nothing yet, Ok(response) or Err(error), the
\* error being the variant of AgentProtocolError followed by its fields.  A
\* response frame carries the protocol version, whether it parses as an
\* AgentResponse, the event the agent wrote it for and the length its prefix
\* announces.
ResponseFrame(of, version, parses, len) ==
    [of |-> of, version |-> version, parses |-> parses, len |-> len]
NoReturn == [tag |-> "none", response |-> ResponseFrame(0, 0, FALSE, 0), error |-> <<>>]
Ok(response) == [tag |-> "ok", response |-> response, error |-> <<>>]
Err(error) == [tag |-> "err", response |-> ResponseFrame(0, 0, FALSE, 0), error |-> error]

\* A body-chunk event, binary (data: Bytes) or JSON (data: base64 String);
\* bytes is bytes_received of a request chunk and bytes_sent of a response
\* chunk, total_size -1 is None.
ChunkEvent(kind, correlation_id, data, is_last, total_size, chunk_index, bytes) ==
    [kind |-> kind, correlation_id |-> correlation_id, data |-> data, is_last |-> is_last,
     total_size |-> total_size, chunk_index |-> chunk_index, bytes |-> bytes]
NoChunkEvent == ChunkEvent("none", "", <<>>, FALSE, -1, 0, 0)

\* A message the UDS server writes: its type, the success flag and encoding
\* of a HandshakeResponse, and audit.custom["correlation_id"] of an
\* AgentResponse (present or not, and its value).
AuditCid(present, value) == [present |-> present, value |-> value]
ServerMessage(type, success, encoding, audit_cid) ==
    [type |-> type, success |-> success, encoding |-> encoding, audit_cid |-> audit_cid]
NoMessage == ServerMessage("none", FALSE, "Json", AuditCid(FALSE, ""))

\* PromptInjectionConfig / PiiDetectionConfig: block_message <<>> is None.
GuardrailConfig(enabled, agent, action, block_status, block_message, failure_mode) ==
    [enabled |-> enabled, agent |-> agent, action |-> action, block_status |-> block_status,
     block_message |-> block_message, failure_mode |-> failure_mode]
NoGuardrailConfig == GuardrailConfig(FALSE, "waf", "Block", 0, <<>>, "Open")

\* What timeout(.., call_guardrail_agent(..)) gives: Ok(Ok(response)),
\* Ok(Err(message)) or Err(elapsed).
GuardrailOk(detected) == [tag |-> "ok", detected |-> detected, message |-> <<>>]
GuardrailErr(message) == [tag |-> "err", detected |-> FALSE, message |-> message]
GuardrailElapsed == [tag |-> "timeout", detected |-> FALSE, message |-> <<>>]

\* PromptInjectionResult / PiiCheckResult.
GuardrailResult(kind, status, message) == [kind |-> kind, status |-> status, message |-> message]
Clean == GuardrailResult("Clean", 0, <<>>)

\* grpc::AgentRequest: the version, the event type and the data bytes of the
\* event (empty for the events that carry none).
GrpcRequest(event_type, data) ==
    [some |-> TRUE, version |-> PROTOCOL_VERSION, event_type |-> event_type, data |-> data]
NoRequest == [some |-> FALSE, version |-> 0, event_type |-> "none", data |-> <<>>]

\* The configured agents: waf fails closed by default, ratelimit fails open.
AgentConfigs ==
    [a \in Agents |->
        [max_concurrent_calls |-> MaxPermits,
         failure_mode |-> IF a = "waf" THEN "Closed" ELSE "Open",
         handles |-> EventTypes]]

\* with_buckets: bucket boundaries in microseconds, one more count for +Inf.
HistogramBuckets == <<10, 50>>
Recorders == 1..MaxRecorders
Observations == {5, 30, 70}

\* A snapshot being taken: the counts loaded so far, then sum, then count.
\* counted is the total of the observations count stood for when it was loaded.
NoSnapshot == [pc |-> "none", counts |-> <<>>, sum |-> 0, count |-> 0, counted |-> 0]

\* Agents that declare only some events: no agent declares body chunks.
PartialConfigs ==
    [a \in Agents |->
        [max_concurrent_calls |-> MaxPermits,
         failure_mode |-> IF a = "waf" THEN "Closed" ELSE "Open",
         handles |-> IF a = "waf" THEN {"RequestHeaders", "WebSocketFrame", "GuardrailInspect"}
                     ELSE {"ResponseHeaders"}]]

\* AgentManager::new: one semaphore of max_concurrent_calls permits and one
\* closed breaker per configured agent.
InitWith(configs) ==
    /\ served = [inbox |-> <<>>, outbox |-> <<>>]
    /\ hist = [counts |-> [i \in 1..(Len(HistogramBuckets) + 1) |-> 0], sum |-> 0, count |-> 0,
               rec |-> [r \in Recorders |-> [pc |-> "idle", micros |-> 0]],
               records |-> 0, counted |-> 0, snap |-> NoSnapshot]
    /\ forward = [made |-> "none", index |-> 0, mutation |-> NoMutation, original |-> "", forwarded |-> ""]
    /\ cow = [inner |-> [x \in {} |-> <<>>], before |-> [x \in {} |-> <<>>], op |-> "none",
              name |-> "", value |-> ""]
    /\ cfg = configs
    /\ permits = [a \in Agents |-> cfg[a].max_concurrent_calls]
    /\ breaker = [a \in Agents |-> [state |-> "Closed", failures |-> 0]]
    /\ recorded = [a \in Agents |-> [success |-> 0, failure |-> 0, timeout |-> 0]]
    /\ delivered = [a \in Agents |-> 0]
    /\ started = 0
    /\ pc = [c \in Tasks |-> "idle"]
    /\ path = [c \in Tasks |-> "none"]
    /\ event = [c \in Tasks |-> "none"]
    /\ futs = [c \in Tasks |-> <<>>]
    /\ idx = [c \in Tasks |-> 0]
    /\ combined = [c \in Tasks |-> default_allow]
    /\ result = [c \in Tasks |-> NoResult]
    /\ payload = [c \in Tasks |-> NoPayload]
    /\ last_chunk = [c \in Tasks |-> [a \in Agents |-> -1]]
    /\ client = [pc |-> "idle", calls |-> 0, event |-> 0, ret |-> NoReturn,
                 size |-> 0, wrote |-> 0, prefix |-> -1, read |-> 0]
    /\ wire_to_agent = <<>>
    /\ wire_to_client = <<>>
    /\ conn = [pc |-> "handshake", reads |-> 0, first |-> "none", success |-> FALSE,
               handshakes |-> 0, events |-> 0, written |-> 0, last |-> NoMessage,
               event_cid |-> "", offered |-> <<>>, binary_uds |-> FALSE,
               encoding |-> "Json", ret |-> NoReturn]
    /\ guard = [check |-> "none", config |-> NoGuardrailConfig, detects |-> FALSE,
                outcome |-> GuardrailErr(<<>>), result |-> GuardrailResult("none", 0, <<>>)]
    /\ conv = [op |-> "none", input |-> NoChunkEvent, output |-> NoChunkEvent]
    /\ grpc = [calls |-> 0, event_type |-> "none", chunk |-> <<>>, request |-> NoRequest,
               reached |-> FALSE, timer |-> FALSE, ret |-> NoReturn]

Init == InitWith(AgentConfigs)

handles_event(a, event_type) == event_type \in cfg[a].handles

\* ------------------------------------------------------ circuit breaker
is_closed(a) == breaker[a].state = "Closed"

BreakerAfterSuccess(b) == [state |-> "Closed", failures |-> 0]

BreakerAfterFailure(b) ==
    IF b.failures + 1 >= FailureThreshold
    THEN [state |-> "Open", failures |-> FailureThreshold]
    ELSE [state |-> b.state, failures |-> b.failures + 1]

\* The open duration of a breaker has passed: Open -> HalfOpen.
OpenDurationElapses(a) ==
    /\ breaker[a].state = "Open"
    /\ breaker' = [breaker EXCEPT ![a].state = "HalfOpen"]
    /\ UNCHANGED <<cfg, permits, recorded, delivered, started, pc, path, event, futs, idx,
                   combined, result, payload, last_chunk, outsideManager>>

\* AgentV2::record_success / record_failure / record_timeout
Record(a, what) ==
    /\ recorded' = [recorded EXCEPT ![a][what] = @ + 1]
    /\ breaker' = [breaker EXCEPT ![a] =
                      IF what = "success" THEN BreakerAfterSuccess(@)
                      ELSE BreakerAfterFailure(@)]

\* ------------------------------------------------ starting a manager call
Begin(c, p, event_type, chunk, calls, empty_result) ==
    /\ pc[c] = "idle"
    /\ started < MaxStarts
    /\ started' = started + 1
    /\ path' = [path EXCEPT ![c] = p]
    /\ event' = [event EXCEPT ![c] = event_type]
    /\ payload' = [payload EXCEPT ![c] = chunk]
    /\ futs' = [futs EXCEPT ![c] = calls]
    /\ idx' = [idx EXCEPT ![c] = IF calls = <<>> THEN 0 ELSE 1]
    /\ combined' = [combined EXCEPT ![c] = default_allow]
    /\ pc' = [pc EXCEPT ![c] = IF calls = <<>> THEN "done" ELSE "running"]
    /\ result' = [result EXCEPT ![c] = IF calls = <<>> THEN empty_result ELSE NoResult]
    /\ UNCHANGED <<cfg, permits, breaker, recorded, delivered, last_chunk, outsideManager>>

\* The entries of the route whose agent is configured and declares the event.
relevant_agents(route, event_type) ==
    SelectSeq(route, LAMBDA e : e.id \in DOMAIN cfg /\ handles_event(e.id, event_type))

\* process_request_headers -> process_event_parallel, up to the fan-out: the
\* failure mode of each call is the one of the filter.
StartRequestHeaders(c, route) ==
    LET agent_info == relevant_agents(route, "RequestHeaders") IN
    Begin(c, "parallel", "RequestHeaders", NoPayload,
          [i \in 1..Len(agent_info) |->
              Fut(agent_info[i].id, agent_info[i].failure_mode, agent_info[i].failure_mode)],
          OkDecision(default_allow))

\* process_request_body_streaming / process_response_body_streaming /
\* process_response_headers -> process_event, up to the loop: the caller
\* passes the chunk_index and the byte count of the chunk and the agent ids
\* only, the failure mode is the agent's own.
StartSequential(c, event_type, chunk, route) ==
    LET relevant == relevant_agents(route, event_type) IN
    Begin(c, "sequential", event_type, chunk,
          [i \in 1..Len(relevant) |->
              Fut(relevant[i].id, cfg[relevant[i].id].failure_mode, relevant[i].failure_mode)],
          OkDecision(default_allow))

\* process_request_body (buffered mode): a body above max_size is allowed at
\* once; any other is one chunk with chunk_index 0 and bytes_received = len.
max_size == 1024 * 1024

process_request_body(c, len, route) ==
    IF len > max_size
    THEN Begin(c, "oversized", "RequestBodyChunk", NoPayload, <<>>, OkDecision(default_allow))
    ELSE StartSequential(c, "RequestBodyChunk", Chunk(0, "body", len), route)

FilterModeIn(route, a) ==
    IF \E k \in DOMAIN route : route[k].id = a
    THEN (CHOOSE e \in { route[k] : k \in DOMAIN route } : e.id = a).failure_mode
    ELSE "None"

\* The orders in which a HashMap may yield the agents of set S.
Orders(S) ==
    { o \in [1..Cardinality(S) -> S] : \A i, j \in DOMAIN o : i # j => o[i] # o[j] }

\* process_websocket_frame up to the loop: agents.values() filtered by the
\* event, in the map's iteration order.
StartWebSocketFrame(c, route, order) ==
    /\ order \in Orders({ a \in DOMAIN cfg : handles_event(a, "WebSocketFrame") })
    /\ Begin(c, "websocket", "WebSocketFrame", NoPayload,
             [i \in 1..Len(order) |->
                 Fut(order[i], cfg[order[i]].failure_mode, FilterModeIn(route, order[i]))],
             OkResponse(websocket_allow))

GuardrailNotFound == <<"Agent", "not found">>
GuardrailCircuitOpen == <<"Circuit breaker open">>
GuardrailTimedOut == <<"Guardrail agent call timed out">>

\* call_guardrail_agent up to the permit.
StartGuardrail(c, agent_name) ==
    IF agent_name \in DOMAIN cfg
    THEN Begin(c, "guardrail", "GuardrailInspect", NoPayload,
               <<Fut(agent_name, "None", "None")>>, NoResult)
    ELSE Begin(c, "guardrail", "GuardrailInspect", NoPayload, <<>>,
               ErrResult(GuardrailNotFound))

\* --------------------------------------------------- one agent call
\* Whether the guard of self.agents.read() is still alive once the agents of
\* the call are chosen: process_event and process_websocket_frame keep
\* references into the map (relevant_agents) up to their return, while
\* process_event_parallel and call_guardrail_agent clone the Arcs and drop it.
agents_guard_kept(p) == p \in {"sequential", "websocket"}

\* Task c holds shared read access to the agent map.
HoldsAgentsRead(c) == pc[c] = "running" /\ agents_guard_kept(path[c])

Completed(calls) == { k \in DOMAIN calls : calls[k].st = "done" }

Done(calls, i, what, out) ==
    [calls EXCEPT ![i] =
        [@ EXCEPT !.st = "done", !.permit = FALSE,
                  !.rec = IF what = "none" THEN @ ELSE Append(@, what),
                  !.out = out, !.nth = Cardinality(Completed(calls)) + 1]]

\* The reason string a failed call carries.
CircuitOpenReason == <<"Circuit breaker open">>
TimeoutReason == <<"Timeout">>
AgentErrorReason(e) == <<"Agent error:">> \o e

\* agent.call_event(event_type, event): the agent is handed the event of the
\* manager call as the caller built it.
call_event(c, i, permit) ==
    LET a == futs[c][i].agent IN
    /\ futs' = [futs EXCEPT ![c][i] =
                    [@ EXCEPT !.st = "awaiting", !.permit = permit, !.sent = payload[c]]]
    /\ delivered' = [delivered EXCEPT ![a] = @ + 1]
    /\ last_chunk' = IF event[c] = "RequestBodyChunk"
                     THEN [last_chunk EXCEPT ![c][a] = payload[c].chunk_index]
                     ELSE last_chunk

\* Variant: the return on an open breaker does not give the permit back.
Acquire_LeaksPermitOnOpenBreaker(c, i) ==
    /\ pc[c] = "running"
    /\ i \in DOMAIN futs[c]
    /\ futs[c][i].st = "queued"
    /\ LET a == futs[c][i].agent IN
        /\ permits[a] > 0
        /\ permits' = [permits EXCEPT ![a] = @ - 1]
        /\ IF ~is_closed(a)
           THEN /\ futs' = [futs EXCEPT ![c] = Done(@, i, "none", ErrOutcome(CircuitOpenReason))]
                /\ UNCHANGED <<delivered, last_chunk>>
           ELSE call_event(c, i, TRUE)
    /\ UNCHANGED <<cfg, breaker, recorded, started, path, event, payload, outsideManager>>

\* Variant: the call is dispatched whatever the state of the breaker.
Acquire_IgnoresBreaker(c, i) ==
    /\ pc[c] = "running"
    /\ i \in DOMAIN futs[c]
    /\ futs[c][i].st = "queued"
    /\ permits[futs[c][i].agent] > 0
    /\ call_event(c, i, TRUE)
    /\ permits' = [permits EXCEPT ![futs[c][i].agent] = @ - 1]
    /\ UNCHANGED <<cfg, breaker, recorded, started, path, event, payload, outsideManager>>

\* sem.acquire_owned().await, then the breaker check: the call either ends
\* with the circuit-breaker-open outcome (the permit is dropped at once) or is
\* dispatched holding the permit.
Acquire(c, i) ==
    /\ pc[c] = "running"
    /\ i \in DOMAIN futs[c]
    /\ futs[c][i].st = "queued"
    /\ LET a == futs[c][i].agent IN
        /\ permits[a] > 0
        /\ IF ~is_closed(a)
           THEN /\ futs' = [futs EXCEPT ![c] = Done(@, i, "none", ErrOutcome(CircuitOpenReason))]
                /\ UNCHANGED <<permits, delivered, last_chunk>>
           ELSE /\ call_event(c, i, TRUE)
                /\ permits' = [permits EXCEPT ![a] = @ - 1]
    /\ UNCHANGED <<cfg, breaker, recorded, started, path, event, payload, outsideManager>>

\* The breaker check of a path that takes no permit.
Check(c, i) ==
    /\ pc[c] = "running"
    /\ i \in DOMAIN futs[c]
    /\ futs[c][i].st = "queued"
    /\ LET a == futs[c][i].agent IN
        IF ~is_closed(a)
        THEN /\ futs' = [futs EXCEPT ![c] = Done(@, i, "none", ErrOutcome(CircuitOpenReason))]
             /\ UNCHANGED <<delivered, last_chunk>>
        ELSE call_event(c, i, FALSE)
    /\ UNCHANGED <<cfg, permits, breaker, recorded, started, path, event, payload, outsideManager>>

\* Variant: the permit is not given back when the call ends.
Complete_KeepsPermit(c, i, what, out) ==
    /\ pc[c] = "running"
    /\ i \in DOMAIN futs[c]
    /\ futs[c][i].st = "awaiting"
    /\ Record(futs[c][i].agent, what)
    /\ futs' = [futs EXCEPT ![c] = Done(@, i, what, out)]
    /\ UNCHANGED <<cfg, permits, delivered, started, path, event, payload, last_chunk,
                   outsideManager>>

\* An arm of the match on timeout(duration, agent.call_event(..)).await: the
\* outcome is recorded on the breaker and the permit is dropped.
Complete(c, i, what, out) ==
    /\ pc[c] = "running"
    /\ i \in DOMAIN futs[c]
    /\ futs[c][i].st = "awaiting"
    /\ Record(futs[c][i].agent, what)
    /\ futs' = [futs EXCEPT ![c] = Done(@, i, what, out)]
    /\ permits' = [permits EXCEPT ![futs[c][i].agent] = IF futs[c][i].permit THEN @ + 1 ELSE @]
    /\ UNCHANGED <<cfg, delivered, started, path, event, payload, last_chunk, outsideManager>>

\* ----------------------------------------- process_event_parallel
ParallelAcquire(c, i) ==
    /\ path[c] = "parallel"
    /\ Acquire(c, i)
    /\ UNCHANGED <<pc, idx, combined, result>>

ParallelReply(c, i, resp) ==
    /\ path[c] = "parallel"
    /\ Complete(c, i, "success", OkOutcome(resp))
    /\ UNCHANGED <<pc, idx, combined, result>>

ParallelError(c, i, e) ==
    /\ path[c] = "parallel"
    /\ Complete(c, i, "failure", ErrOutcome(AgentErrorReason(e)))
    /\ UNCHANGED <<pc, idx, combined, result>>

\* Variant: the timeout arm records a failure.
ParallelTimeout_RecordsFailure(c, i) ==
    /\ path[c] = "parallel"
    /\ Complete(c, i, "failure", ErrOutcome(TimeoutReason))
    /\ UNCHANGED <<pc, idx, combined, result>>

ParallelTimeout(c, i) ==
    /\ path[c] = "parallel"
    /\ Complete(c, i, "timeout", ErrOutcome(TimeoutReason))
    /\ UNCHANGED <<pc, idx, combined, result>>

\* reason.contains("Timeout")
contains(reason, word) == \E k \in DOMAIN reason : reason[k] = word

SynthesizedBlock(reason) ==
    IF contains(reason, "Timeout")
    THEN block(504, "Gateway timeout")
    ELSE block(503, "Service unavailable")

NoBlockingError == [some |-> FALSE, decision |-> default_allow]

\* Variant: a failure of a fail-open filter is remembered as a block too.
RemembersBlock_AnyMode(failure_mode, blocking_error) == ~blocking_error.some

\* failure_mode == FailureMode::Closed && blocking_error.is_none()
RemembersBlock(failure_mode, blocking_error) ==
    failure_mode = "Closed" /\ ~blocking_error.some

\* The loop over the results of join_all, from result i on, and the return
\* statements after it.  examined is the number of results looked at.
RECURSIVE ExamineFrom(_, _, _, _)
ExamineFrom(results, i, combined_decision, blocking_error) ==
    IF i > Len(results)
    THEN [ret |-> OkDecision(IF blocking_error.some THEN blocking_error.decision
                             ELSE combined_decision),
          combined |-> combined_decision, examined |-> Len(results)]
    ELSE IF results[i].out.tag = "ok"
    THEN LET decision == FromResponse(results[i].out.resp) IN
         IF ~is_allow(decision)
         THEN [ret |-> OkDecision(decision), combined |-> combined_decision, examined |-> i]
         ELSE ExamineFrom(results, i + 1, merge(combined_decision, decision), blocking_error)
    ELSE IF RemembersBlock(results[i].failure_mode, blocking_error)
    THEN ExamineFrom(results, i + 1, combined_decision,
                     [some |-> TRUE, decision |-> SynthesizedBlock(results[i].out.reason)])
    ELSE ExamineFrom(results, i + 1, combined_decision, blocking_error)

ExamineResults(results) == ExamineFrom(results, 1, default_allow, NoBlockingError)

\* Variant: the fan-out is left as soon as one call has answered non-Allow.
AllJoined_ShortCircuit(c) ==
    \/ \A i \in DOMAIN futs[c] : futs[c][i].st = "done"
    \/ \E i \in DOMAIN futs[c] :
          /\ futs[c][i].out.tag = "ok"
          /\ ~is_allow(FromResponse(futs[c][i].out.resp))

\* join_all(futures).await is ready: every call of the fan-out has completed.
AllJoined(c) == \A i \in DOMAIN futs[c] : futs[c][i].st = "done"

\* Variant: the results are collected in the order the calls completed.
JoinedResults_CompletionOrder(c) ==
    [k \in DOMAIN futs[c] |->
        futs[c][CHOOSE i \in DOMAIN futs[c] : futs[c][i].nth = k]]

\* The results of join_all, in the order of the futures.
JoinedResults(c) == futs[c]

JoinAll(c) ==
    /\ pc[c] = "running" /\ path[c] = "parallel"
    /\ AllJoined(c)
    /\ LET r == ExamineResults(JoinedResults(c)) IN
        /\ result' = [result EXCEPT ![c] = r.ret]
        /\ combined' = [combined EXCEPT ![c] = r.combined]
        /\ idx' = [idx EXCEPT ![c] = r.examined]
    /\ pc' = [pc EXCEPT ![c] = "done"]
    /\ UNCHANGED <<cfg, permits, breaker, recorded, delivered, started, path, event, futs,
                   payload, last_chunk, outsideManager>>

\* ------------------------------------------- one agent after the other
\* After agent idx[c]: return ret when stop, else go on with the next agent,
\* and return end_ret after the last one.
Proceed(c, stop, ret, combined_decision, end_ret) ==
    /\ combined' = [combined EXCEPT ![c] = combined_decision]
    /\ IF stop \/ idx[c] = Len(futs[c])
       THEN /\ result' = [result EXCEPT ![c] = IF stop THEN ret ELSE end_ret]
            /\ pc' = [pc EXCEPT ![c] = "done"]
            /\ UNCHANGED idx
       ELSE /\ idx' = [idx EXCEPT ![c] = @ + 1]
            /\ UNCHANGED <<pc, result>>

\* ------------------------------------------------- process_event
SequentialAcquire(c) ==
    /\ path[c] = "sequential"
    /\ Acquire(c, idx[c])
    /\ IF futs'[c][idx[c]].st = "done"
       THEN Proceed(c, futs[c][idx[c]].failure_mode = "Closed",
                    OkDecision(block(503, "Service unavailable")),
                    combined[c], OkDecision(combined[c]))
       ELSE UNCHANGED <<pc, idx, combined, result>>

\* Variant: the chain goes on after a non-Allow decision.
SequentialReply_NoBreak(c, resp) ==
    /\ path[c] = "sequential"
    /\ Complete(c, idx[c], "success", OkOutcome(resp))
    /\ LET combined_decision == merge(combined[c], FromResponse(resp)) IN
       Proceed(c, FALSE, OkDecision(combined_decision),
               combined_decision, OkDecision(combined_decision))

SequentialReply(c, resp) ==
    /\ path[c] = "sequential"
    /\ Complete(c, idx[c], "success", OkOutcome(resp))
    /\ LET combined_decision == merge(combined[c], FromResponse(resp)) IN
       Proceed(c, ~is_allow(combined_decision), OkDecision(combined_decision),
               combined_decision, OkDecision(combined_decision))

SequentialError(c, e) ==
    /\ path[c] = "sequential"
    /\ Complete(c, idx[c], "failure", ErrOutcome(AgentErrorReason(e)))
    /\ Proceed(c, futs[c][idx[c]].failure_mode = "Closed", ErrResult(e),
               combined[c], OkDecision(combined[c]))

SequentialTimeout(c) ==
    /\ path[c] = "sequential"
    /\ Complete(c, idx[c], "timeout", ErrOutcome(TimeoutReason))
    /\ Proceed(c, futs[c][idx[c]].failure_mode = "Closed",
               OkDecision(block(504, "Gateway timeout")),
               combined[c], OkDecision(combined[c]))

\* ------------------------------------------ process_websocket_frame
WsResponses(a) ==
    { AgentResponse(Allow, <<>>, w) : w \in {WsNone, WsAllow, WsDrop, WsClose(1008, "policy")} }

WebSocketCheck(c) ==
    /\ path[c] = "websocket"
    /\ Check(c, idx[c])
    /\ IF futs'[c][idx[c]].st = "done"
       THEN Proceed(c, futs[c][idx[c]].failure_mode = "Closed",
                    OkResponse(websocket_close(1011, "Service unavailable")),
                    combined[c], OkResponse(websocket_allow))
       ELSE UNCHANGED <<pc, idx, combined, result>>

\* Variant: only a Close decision ends the chain.
WebSocketReply_DropGoesOn(c, resp) ==
    /\ path[c] = "websocket"
    /\ Complete(c, idx[c], "success", OkOutcome(resp))
    /\ Proceed(c, resp.websocket_decision.kind = "Close",
               OkResponse(resp), combined[c], OkResponse(websocket_allow))

WebSocketReply(c, resp) ==
    /\ path[c] = "websocket"
    /\ Complete(c, idx[c], "success", OkOutcome(resp))
    /\ Proceed(c, resp.websocket_decision.kind \notin {"None", "Allow"},
               OkResponse(resp), combined[c], OkResponse(websocket_allow))

WebSocketError(c, e) ==
    /\ path[c] = "websocket"
    /\ Complete(c, idx[c], "failure", ErrOutcome(AgentErrorReason(e)))
    /\ Proceed(c, futs[c][idx[c]].failure_mode = "Closed",
               OkResponse(websocket_close(1011, "Agent error")),
               combined[c], OkResponse(websocket_allow))

WebSocketTimeout(c) ==
    /\ path[c] = "websocket"
    /\ Complete(c, idx[c], "timeout", ErrOutcome(TimeoutReason))
    /\ Proceed(c, futs[c][idx[c]].failure_mode = "Closed",
               OkResponse(websocket_close(1011, "Gateway timeout")),
               combined[c], OkResponse(websocket_allow))

\* --------------------------------------------- call_guardrail_agent
GuardrailResponses == { default_allow_response }

GuardrailAcquire(c) ==
    /\ path[c] = "guardrail"
    /\ Acquire(c, idx[c])
    /\ IF futs'[c][idx[c]].st = "done"
       THEN Proceed(c, TRUE, ErrResult(GuardrailCircuitOpen), combined[c], NoResult)
       ELSE UNCHANGED <<pc, idx, combined, result>>

GuardrailReply(c, resp) ==
    /\ path[c] = "guardrail"
    /\ Complete(c, idx[c], "success", OkOutcome(resp))
    /\ Proceed(c, TRUE, OkResponse(resp), combined[c], NoResult)

GuardrailError(c, e) ==
    /\ path[c] = "guardrail"
    /\ Complete(c, idx[c], "failure", ErrOutcome(e))
    /\ Proceed(c, TRUE, ErrResult(e), combined[c], NoResult)

GuardrailTimeout(c) ==
    /\ path[c] = "guardrail"
    /\ Complete(c, idx[c], "timeout", ErrOutcome(TimeoutReason))
    /\ Proceed(c, TRUE, ErrResult(GuardrailTimedOut), combined[c], NoResult)

\* ----------------------------------------------------------- callers
\* The caller takes the result; the task can call the manager again.
Finish(c) ==
    /\ pc[c] = "done"
    /\ pc' = [pc EXCEPT ![c] = "idle"]
    /\ path' = [path EXCEPT ![c] = "none"]
    /\ event' = [event EXCEPT ![c] = "none"]
    /\ futs' = [futs EXCEPT ![c] = <<>>]
    /\ idx' = [idx EXCEPT ![c] = 0]
    /\ combined' = [combined EXCEPT ![c] = default_allow]
    /\ result' = [result EXCEPT ![c] = NoResult]
    /\ payload' = [payload EXCEPT ![c] = NoPayload]
    /\ UNCHANGED <<cfg, permits, breaker, recorded, delivered, started, last_chunk,
                   outsideManager>>

SequentialEvents == {"RequestBodyChunk", "ResponseHeaders", "ResponseBodyChunk"}

\* The first chunk of a body: chunk_index 0, the bytes so far are its own.
FirstChunk == Chunk(0, "ab", 2)
GuardrailAgents == Agents \cup {"pii-scanner"}

\* The agent of the call the loop of a sequential path is at.
Current(c) == futs[c][idx[c]].agent

\* A step of caller c, its inputs drawn from the given sets.
\* The chunks a caller may pass with an event of the given type.
ChunksFor(event_type, Chunks) == IF event_type \in BodyEvents THEN Chunks ELSE {NoPayload}

Step(c, RouteSet, Events, Chunks, Resp(_), WsResp(_), Errors) ==
    \/ \E route \in RouteSet : StartRequestHeaders(c, route)
    \/ \E route \in RouteSet, event_type \in Events :
          \E chunk \in ChunksFor(event_type, Chunks) :
             StartSequential(c, event_type, chunk, route)
    \/ \E route \in RouteSet, S \in SUBSET Agents :
          \E order \in Orders(S) : StartWebSocketFrame(c, route, order)
    \/ \E agent_name \in GuardrailAgents : StartGuardrail(c, agent_name)
    \/ \E i \in DOMAIN futs[c] : ParallelAcquire(c, i)
    \/ \E i \in DOMAIN futs[c] : \E resp \in Resp(futs[c][i].agent) : ParallelReply(c, i, resp)
    \/ \E i \in DOMAIN futs[c], e \in Errors : ParallelError(c, i, e)
    \/ \E i \in DOMAIN futs[c] : ParallelTimeout(c, i)
    \/ JoinAll(c)
    \/ SequentialAcquire(c)
    \/ (pc[c] = "running" /\ \E resp \in Resp(Current(c)) : SequentialReply(c, resp))
    \/ \E e \in Errors : SequentialError(c, e)
    \/ SequentialTimeout(c)
    \/ WebSocketCheck(c)
    \/ (pc[c] = "running" /\ \E resp \in WsResp(Current(c)) : WebSocketReply(c, resp))
    \/ \E e \in Errors : WebSocketError(c, e)
    \/ WebSocketTimeout(c)
    \/ GuardrailAcquire(c)
    \/ \E resp \in GuardrailResponses : GuardrailReply(c, resp)
    \/ \E e \in Errors : GuardrailError(c, e)
    \/ GuardrailTimeout(c)
    \/ Finish(c)

\* One caller of the manager: request headers, the response-side events,
\* WebSocket frames and guardrail calls, every route and every answer.
Next == Step(1, Routes, {"ResponseHeaders", "ResponseBodyChunk"}, {FirstChunk}, Responses,
             WsResponses, AgentErrors)

Spec == Init /\ [][Next]_vars

\* One caller on routes that also name an agent the manager does not know,
\* with agents that declare only some of the events.
OmittedRouteEntries == [id : Agents \cup {"ghost"}, failure_mode : FailureModes]

OmittedRoutes ==
    { <<e>> : e \in OmittedRouteEntries }
    \cup { r \in { <<e, f>> : e \in OmittedRouteEntries, f \in OmittedRouteEntries } :
             r[1].id # r[2].id }

NextOmitted == Step(1, OmittedRoutes, {"ResponseHeaders", "ResponseBodyChunk"}, {FirstChunk},
                    Responses, WsResponses, AgentErrors)

SpecOmitted == InitWith(PartialConfigs) /\ [][NextOmitted]_vars

\* Frames of one route handled by several callers; each agent has one answer
\* to a frame: waf drops it, ratelimit closes the connection.
FrameResponses(a) ==
    { AgentResponse(Allow, <<>>, IF a = "waf" THEN WsDrop ELSE WsClose(1008, "policy")) }

FrameRoute == <<[id |-> "waf", failure_mode |-> "Closed"],
                [id |-> "ratelimit", failure_mode |-> "Open"]>>

NextFrames ==
    \E c \in Tasks :
        \/ \E S \in SUBSET Agents : \E order \in Orders(S) :
              StartWebSocketFrame(c, FrameRoute, order)
        \/ WebSocketCheck(c)
        \/ (pc[c] = "running" /\ \E resp \in FrameResponses(Current(c)) : WebSocketReply(c, resp))
        \/ \E e \in AgentErrors : WebSocketError(c, e)
        \/ WebSocketTimeout(c)
        \/ Finish(c)

SpecFrames == Init /\ [][NextFrames]_vars

\* Concurrent callers of the manager; every agent answers Allow, fails or
\* times out.
ConcurrentRoutes ==
    { <<[id |-> "waf", failure_mode |-> "Closed"]>>,
      <<[id |-> "waf", failure_mode |-> "Closed"], [id |-> "ratelimit", failure_mode |-> "Open"]>> }

AllowResponses(a) == { AgentResponse(Allow, OpsOf(a), WsNone) }
WsAllowResponses(a) == { AgentResponse(Allow, <<>>, WsAllow) }
ConnectionErrors == { <<"gRPC call failed:", "connection refused">> }

NextConcurrent ==
    \E c \in Tasks :
        Step(c, ConcurrentRoutes, {"ResponseHeaders"}, {FirstChunk}, AllowResponses,
             WsAllowResponses, ConnectionErrors)

SpecConcurrent == Init /\ [][NextConcurrent]_vars

\* A caller streaming the chunks of a request body through the agents: it may
\* pass any chunk with any call, and an agent may answer with a body mutation
\* for either chunk index.
BodyChunks == { Chunk(0, "ab", 2), Chunk(1, "cd", 4) }

BodyResponses(a) ==
    { default_allow_response,
      with_request_body_mutation(default_allow_response, pass_through(0)),
      with_request_body_mutation(default_allow_response, replace(0, "REDACTED")),
      with_request_body_mutation(default_allow_response, replace(1, "REDACTED")),
      with_request_body_mutation(default_allow_response, drop_chunk(1)),
      AgentResponse(Block(403, "blocked"), <<>>, WsNone) }

NextBody ==
    \/ \E route \in Routes, chunk \in BodyChunks :
          StartSequential(1, "RequestBodyChunk", chunk, route)
    \/ SequentialAcquire(1)
    \/ (pc[1] = "running" /\ \E resp \in BodyResponses(Current(1)) : SequentialReply(1, resp))
    \/ \E e \in ConnectionErrors : SequentialError(1, e)
    \/ SequentialTimeout(1)
    \/ Finish(1)

SpecBody == Init /\ [][NextBody]_vars

\* A caller handing whole request bodies of several lengths to the manager.
BodyLengths == {0, 2, max_size, max_size + 1, 2 * max_size}

NextBuffered ==
    \/ \E route \in Routes, len \in BodyLengths : process_request_body(1, len, route)
    \/ SequentialAcquire(1)
    \/ (pc[1] = "running" /\ \E resp \in Responses(Current(1)) : SequentialReply(1, resp))
    \/ \E e \in ConnectionErrors : SequentialError(1, e)
    \/ SequentialTimeout(1)
    \/ Finish(1)

SpecBuffered == Init /\ [][NextBuffered]_vars

\* A caller of agents whose breakers, once open, go half-open after a while.
NextRecovery ==
    \/ Step(1, ConcurrentRoutes, {"ResponseHeaders"}, {FirstChunk}, AllowResponses,
            WsAllowResponses, ConnectionErrors)
    \/ \E a \in Agents : OpenDurationElapses(a)

SpecRecovery == Init /\ [][NextRecovery]_vars

\* Callers contending for one agent, which the route names twice.
ContendedRoute ==
    <<[id |-> "waf", failure_mode |-> "Open"], [id |-> "waf", failure_mode |-> "Closed"]>>

\* agent.call_event for call i of task c ends: response, error or timeout.
ParallelCallEnds(c, i) ==
    /\ i \in DOMAIN futs[c]
    /\ \/ \E resp \in AllowResponses(futs[c][i].agent) : ParallelReply(c, i, resp)
       \/ \E e \in ConnectionErrors : ParallelError(c, i, e)
       \/ ParallelTimeout(c, i)

SequentialCallEnds(c) ==
    \/ (pc[c] = "running" /\ \E resp \in AllowResponses(Current(c)) : SequentialReply(c, resp))
    \/ \E e \in ConnectionErrors : SequentialError(c, e)
    \/ SequentialTimeout(c)

NextContended ==
    \E c \in Tasks :
        \/ StartRequestHeaders(c, ContendedRoute)
        \/ StartSequential(c, "ResponseHeaders", NoPayload, ContendedRoute)
        \/ \E i \in DOMAIN futs[c] : ParallelAcquire(c, i)
        \/ \E i \in DOMAIN futs[c] : ParallelCallEnds(c, i)
        \/ JoinAll(c)
        \/ SequentialAcquire(c)
        \/ SequentialCallEnds(c)
        \/ Finish(c)

\* The semaphore serves its waiters in the order they asked (tokio's Semaphore
\* is fair), every dispatched call ends (the timeout bounds it), and a task
\* that can run does run.
Fairness ==
    \A c \in Tasks :
        /\ \A i \in 1..Len(ContendedRoute) :
              SF_vars(ParallelAcquire(c, i)) /\ WF_vars(ParallelCallEnds(c, i))
        /\ SF_vars(SequentialAcquire(c))
        /\ WF_vars(SequentialCallEnds(c))
        /\ WF_vars(JoinAll(c))

SpecContended == Init /\ [][NextContended]_vars /\ Fairness

\* ------------------------------------------------- AgentClient (UDS)
\* Sizes of the serialized requests a caller may send and of the responses
\* an agent may write.
MessageSizes == {64, MAX_MESSAGE_SIZE, MAX_MESSAGE_SIZE + 1}

\* The size check of send_event_unix_socket and of receive_raw_unix.
TooLarge_FromTheLimit(len) == len >= MAX_MESSAGE_SIZE
TooLarge(len) == len > MAX_MESSAGE_SIZE

MessageTooLarge(size) == <<"MessageTooLarge", size, MAX_MESSAGE_SIZE>>

\* Bytes of the big-endian length prefix of a frame.
PrefixLen == 4

\* send_event_unix_socket up to the await on the response: the request is
\* serialized and checked against MAX_MESSAGE_SIZE, then send_raw_unix writes
\* its frame to the socket.  The event is named by the number of the call.
SendEvent(size) ==
    /\ client.pc \in {"idle", "returned"}
    /\ client.calls < MaxEvents
    /\ IF TooLarge(size)
       THEN /\ client' = [pc |-> "returned", calls |-> client.calls + 1,
                          event |-> client.calls + 1, ret |-> Err(MessageTooLarge(size)),
                          size |-> size, wrote |-> 0, prefix |-> -1, read |-> 0]
            /\ UNCHANGED wire_to_agent
       ELSE /\ client' = [pc |-> "receiving", calls |-> client.calls + 1,
                          event |-> client.calls + 1, ret |-> NoReturn,
                          size |-> size, wrote |-> PrefixLen + size, prefix |-> -1,
                          read |-> 0]
            /\ wire_to_agent' = Append(wire_to_agent, client.calls + 1)
    /\ UNCHANGED <<wire_to_client, outsideClient>>

\* The agent reads the next request frame and writes its response frame.
AgentReplies(version, parses, len) ==
    /\ wire_to_agent # <<>>
    /\ wire_to_agent' = Tail(wire_to_agent)
    /\ wire_to_client' = Append(wire_to_client,
                                ResponseFrame(Head(wire_to_agent), version, parses, len))
    /\ UNCHANGED <<client, outsideClient>>

\* receive_raw_unix returns the next frame on the socket within the timeout:
\* it reads the length prefix, checks it against MAX_MESSAGE_SIZE and only then
\* reads the payload; the frame is parsed and its version verified.  After a
\* prefix that was too large the payload is still on the socket, and the next
\* read takes whatever frame its bytes spell.
ReceiveResponse(spelled) ==
    /\ client.pc = "receiving"
    /\ wire_to_client # <<>>
    /\ LET frame == Head(wire_to_client) IN
        IF TooLarge(frame.len)
        THEN /\ client' = [client EXCEPT !.pc = "returned", !.prefix = frame.len,
                                         !.ret = Err(MessageTooLarge(frame.len))]
             /\ wire_to_client' = <<[spelled EXCEPT !.of = frame.of]>> \o Tail(wire_to_client)
        ELSE /\ client' = [client EXCEPT
                              !.pc = "returned", !.prefix = frame.len, !.read = frame.len,
                              !.ret = IF ~frame.parses THEN Err(<<"InvalidMessage">>)
                                      ELSE IF frame.version # PROTOCOL_VERSION
                                      THEN Err(<<"VersionMismatch", PROTOCOL_VERSION,
                                                 frame.version>>)
                                      ELSE Ok(frame)]
             /\ wire_to_client' = Tail(wire_to_client)
    /\ UNCHANGED <<wire_to_agent, outsideClient>>

\* tokio::time::timeout elapses first: the receive is dropped and the call
\* returns Timeout; what is on the socket, or arrives later, stays there.
SendEventTimeout ==
    /\ client.pc = "receiving"
    /\ client' = [client EXCEPT !.pc = "returned", !.ret = Err(<<"Timeout">>)]
    /\ UNCHANGED <<wire_to_agent, wire_to_client, outsideClient>>

\* Frames an agent may write.
ResponseFrames ==
    { ResponseFrame(0, version, parses, len) :
        version \in {PROTOCOL_VERSION, 1}, parses \in BOOLEAN, len \in MessageSizes }

NextClient ==
    \/ \E size \in MessageSizes : SendEvent(size)
    \/ \E f \in ResponseFrames : AgentReplies(f.version, f.parses, f.len)
    \/ \E spelled \in ResponseFrames : ReceiveResponse(spelled)
    \/ SendEventTimeout

SpecClient == Init /\ [][NextClient]_vars

\* ------------------------------------------------------------ base64
\* Bytes are sequences of values 0..255; a String is the sequence of its
\* (ASCII) bytes.
RECURSIVE BytesUpTo(_, _)
BytesUpTo(n, Values) ==
    IF n = 0 THEN { <<>> }
    ELSE BytesUpTo(n - 1, Values)
         \cup { Append(b, v) : b \in { x \in BytesUpTo(n - 1, Values) : Len(x) = n - 1 },
                               v \in Values }

\* The character of a 6-bit value in the standard alphabet, and back (-1 for
\* a character outside the alphabet).
B64Char(v) ==
    IF v < 26 THEN 65 + v
    ELSE IF v < 52 THEN 97 + (v - 26)
    ELSE IF v < 62 THEN 48 + (v - 52)
    ELSE IF v = 62 THEN 43 ELSE 47

B64Val(c) ==
    IF c >= 65 /\ c <= 90 THEN c - 65
    ELSE IF c >= 97 /\ c <= 122 THEN c - 97 + 26
    ELSE IF c >= 48 /\ c <= 57 THEN c - 48 + 52
    ELSE IF c = 43 THEN 62
    ELSE IF c = 47 THEN 63 ELSE -1

B64Pad == 61

\* STANDARD.encode: three bytes become four characters, the last group is
\* padded with '='.
RECURSIVE STANDARD_encode(_)
STANDARD_encode(b) ==
    IF Len(b) = 0 THEN <<>>
    ELSE IF Len(b) = 1
    THEN <<B64Char(b[1] \div 4), B64Char((b[1] % 4) * 16), B64Pad, B64Pad>>
    ELSE IF Len(b) = 2
    THEN <<B64Char(b[1] \div 4), B64Char((b[1] % 4) * 16 + b[2] \div 16),
           B64Char((b[2] % 16) * 4), B64Pad>>
    ELSE <<B64Char(b[1] \div 4), B64Char((b[1] % 4) * 16 + b[2] \div 16),
           B64Char((b[2] % 16) * 4 + b[3] \div 64), B64Char(b[3] % 64)>>
         \o STANDARD_encode(SubSeq(b, 4, Len(b)))

DecodeOk(bytes) == [ok |-> TRUE, bytes |-> bytes]
DecodeError == [ok |-> FALSE, bytes |-> <<>>]

\* STANDARD.decode: canonical padding is required, the length is a multiple
\* of four, every character is of the alphabet and the unused bits of the last
\* group are zero.
RECURSIVE STANDARD_decode(_)
STANDARD_decode(s) ==
    IF Len(s) = 0 THEN DecodeOk(<<>>)
    ELSE IF Len(s) < 4 THEN DecodeError
    ELSE LET v1 == B64Val(s[1])
             v2 == B64Val(s[2])
             v3 == B64Val(s[3])
             v4 == B64Val(s[4])
             b1 == v1 * 4 + v2 \div 16
             b2 == (v2 % 16) * 16 + v3 \div 4
             b3 == (v3 % 4) * 64 + v4
         IN  IF v1 < 0 \/ v2 < 0 THEN DecodeError
             ELSE IF Len(s) = 4 /\ s[3] = B64Pad /\ s[4] = B64Pad
             THEN (IF v2 % 16 = 0 THEN DecodeOk(<<b1>>) ELSE DecodeError)
             ELSE IF v3 < 0 THEN DecodeError
             ELSE IF Len(s) = 4 /\ s[4] = B64Pad
             THEN (IF v3 % 4 = 0 THEN DecodeOk(<<b1, b2>>) ELSE DecodeError)
             ELSE IF v4 < 0 THEN DecodeError
             ELSE LET rest == STANDARD_decode(SubSeq(s, 5, Len(s)))
                  IN  IF rest.ok THEN DecodeOk(<<b1, b2, b3>> \o rest.bytes)
                      ELSE DecodeError

\* ------------------------------------- binary <-> JSON body chunks
\* From<BinaryRequestBodyChunkEvent> for RequestBodyChunkEvent (and the
\* response variant): the data is base64-encoded, the rest is moved.
to_json(ev) == [ev EXCEPT !.data = STANDARD_encode(@)]

\* From<&RequestBodyChunkEvent> for BinaryRequestBodyChunkEvent (and the
\* response variant): the data is decoded, or taken as raw bytes when it does
\* not decode; the rest is copied.
to_binary_NoFallback(ev) ==
    [ev EXCEPT !.data = STANDARD_decode(@).bytes]
to_binary(ev) ==
    [ev EXCEPT !.data = IF STANDARD_decode(@).ok THEN STANDARD_decode(@).bytes ELSE @]

\* The events converted: every byte string and every string over a few
\* characters ('!', '=', 'A', 'Q') up to MaxDataLen.
ChunkEvents(Data) ==
    { ChunkEvent(kind, "c1", data, is_last, total_size, chunk_index, MaxDataLen) :
        kind \in {"Request", "Response"}, data \in Data, is_last \in BOOLEAN,
        total_size \in {-1, MaxDataLen}, chunk_index \in {0, 1} }

BinaryEvents == ChunkEvents(BytesUpTo(MaxDataLen, {0, 77, 255}))
JsonEvents == ChunkEvents(BytesUpTo(MaxDataLen, {33, 61, 65, 81}))

\* A binary event is converted to JSON and back (one conversion a behaviour).
RoundTrip(ev) ==
    /\ conv.op = "none"
    /\ conv' = [op |-> "round_trip", input |-> ev, output |-> to_binary(to_json(ev))]
    /\ UNCHANGED outsideCodec

\* A JSON event is converted to binary.
FromJson(ev) ==
    /\ conv.op = "none"
    /\ conv' = [op |-> "from_json", input |-> ev, output |-> to_binary(ev)]
    /\ UNCHANGED outsideCodec

NextCodec ==
    \/ \E ev \in BinaryEvents : RoundTrip(ev)
    \/ \E ev \in JsonEvents : FromJson(ev)

SpecCodec == Init /\ [][NextCodec]_vars

\* ------------------------------------------------ UDS v2 agent server
UdsEncodings == {"Json", "MessagePack"}

\* negotiate_encoding: the first encoding of the proxy's list this build
\* supports (MessagePack only with the binary-uds feature), else JSON.
negotiate_encoding_FirstOffered(binary_uds, proxy_encodings) ==
    IF proxy_encodings = <<>> THEN "Json" ELSE Head(proxy_encodings)
RECURSIVE negotiate_encoding(_, _)
negotiate_encoding(binary_uds, proxy_encodings) ==
    IF proxy_encodings = <<>> THEN "Json"
    ELSE IF Head(proxy_encodings) = "Json" THEN "Json"
    ELSE IF binary_uds THEN "MessagePack"
    ELSE negotiate_encoding(binary_uds, Tail(proxy_encodings))

\* The payload of an event message: whether it deserializes as the event of
\* its message type, whether it decodes at all, and the correlation ids it
\* holds at top level and under metadata ("" when absent).
EventMessage(type, parses, readable, correlation_id, metadata_cid) ==
    [type |-> type, parses |-> parses, readable |-> readable,
     correlation_id |-> correlation_id, metadata_cid |-> metadata_cid]

\* extract_correlation_id: the top-level id when not empty, else the one under
\* metadata, else the empty string.
extract_correlation_id(msg) ==
    IF ~msg.readable THEN ""
    ELSE IF msg.correlation_id # "" THEN msg.correlation_id
    ELSE msg.metadata_cid

\* The message types answered with an AgentResponse, and the correlation id
\* handle_* returns with the response: the event's own when it deserializes
\* (metadata.correlation_id for request headers), the extracted one otherwise.
AnsweredTypes ==
    {"RequestHeaders", "RequestBodyChunk", "ResponseHeaders", "ResponseBodyChunk",
     "RequestComplete", "WebSocketFrame", "Configure"}

handled_cid(msg) ==
    IF ~msg.parses THEN extract_correlation_id(msg)
    ELSE IF msg.type = "RequestHeaders" THEN msg.metadata_cid
    ELSE msg.correlation_id

\* write_response: the correlation id is inserted into audit.custom, over
\* whatever the handler left there.
write_response_KeepsHandlerValue(correlation_id, response) ==
    ServerMessage("AgentResponse", FALSE, "Json",
                  IF response.present THEN response ELSE AuditCid(TRUE, correlation_id))
write_response(correlation_id, response) ==
    ServerMessage("AgentResponse", FALSE, "Json", AuditCid(TRUE, correlation_id))

\* handle_*: a payload that does not deserialize is answered without the
\* handler, with websocket_allow for a frame and default_allow otherwise; a
\* Configure is answered after on_configure accepted or rejected it; any other
\* event is answered with what the handler returned.
handle_event_FramesDefaultAllow(msg, accepted) ==
    IF ~msg.parses THEN [handled |-> FALSE, decision |-> "default_allow"]
    ELSE IF msg.type = "Configure"
    THEN [handled |-> TRUE, decision |-> IF accepted THEN "default_allow" ELSE "block_500"]
    ELSE [handled |-> TRUE, decision |-> "handler"]
handle_event(msg, accepted) ==
    IF ~msg.parses
    THEN [handled |-> FALSE,
          decision |-> IF msg.type = "WebSocketFrame" THEN "websocket_allow"
                       ELSE "default_allow"]
    ELSE IF msg.type = "Configure"
    THEN [handled |-> TRUE, decision |-> IF accepted THEN "default_allow" ELSE "block_500"]
    ELSE [handled |-> TRUE, decision |-> "handler"]

\* A message written in the event loop: a Pong with the payload it echoes, or
\* an AgentResponse with its correlation id tag and decision.
NoEcho == EventMessage("none", FALSE, FALSE, "", "")
OutMessage(type, echo, cid, handled, decision) ==
    [type |-> type, echo |-> echo, cid |-> cid, handled |-> handled, decision |-> decision]

\* What one turn of the event loop writes for the message it read.
Written_PingUnanswered(msg, accepted) ==
    IF msg.type \in AnsweredTypes
    THEN <<OutMessage("AgentResponse", NoEcho, handled_cid(msg),
                      handle_event(msg, accepted).handled,
                      handle_event(msg, accepted).decision)>>
    ELSE <<>>
Written(msg, accepted) ==
    IF msg.type = "Ping"
    THEN <<OutMessage("Pong", msg, "", FALSE, "none")>>
    ELSE IF msg.type \in AnsweredTypes
    THEN <<OutMessage("AgentResponse", NoEcho, handled_cid(msg),
                      handle_event(msg, accepted).handled,
                      handle_event(msg, accepted).decision)>>
    ELSE <<>>

\* Whether the connection goes on to the event loop after the handshake.
EntersEventLoop_Always(success) == TRUE
EntersEventLoop(success) == success

\* handle_connection, first message: anything but a HandshakeRequest, or a
\* payload that does not parse, ends the connection with InvalidMessage; else
\* the handler is asked, the HandshakeResponse is written, and the connection
\* goes on only when the handler accepted.
Handshake(type, parses, offered, success, binary_uds) ==
    /\ conn.pc = "handshake"
    /\ conn' =
         IF type # "HandshakeRequest" \/ ~parses
         THEN [conn EXCEPT !.pc = "closed", !.reads = 1, !.first = type,
                           !.ret = Err(<<"InvalidMessage">>)]
         ELSE [conn EXCEPT
                 !.pc = IF EntersEventLoop(success) THEN "events" ELSE "closed",
                 !.reads = 1, !.first = type, !.success = success,
                 !.handshakes = @ + 1, !.written = 1,
                 !.offered = offered, !.binary_uds = binary_uds,
                 !.encoding = negotiate_encoding(binary_uds, offered),
                 !.last = ServerMessage("HandshakeResponse", success,
                                        negotiate_encoding(binary_uds, offered),
                                        AuditCid(FALSE, "")),
                 !.ret = IF EntersEventLoop(success) THEN NoReturn
                         ELSE Ok(<<>>)]
    /\ UNCHANGED outsideServer

\* handle_connection, one turn of the event loop: a Ping is echoed as Pong, a
\* Cancel is logged, an event is handed to the handler (when it deserializes)
\* and answered through write_response, any other type is skipped.
AfterMessage(msg, response) ==
    IF msg.type = "Ping"
    THEN [conn EXCEPT !.reads = @ + 1, !.written = @ + 1,
                      !.last = ServerMessage("Pong", FALSE, "Json", AuditCid(FALSE, ""))]
    ELSE IF msg.type \in AnsweredTypes
    THEN [conn EXCEPT !.reads = @ + 1, !.written = @ + 1,
                      !.events = IF msg.parses THEN @ + 1 ELSE @,
                      !.event_cid = IF msg.type = "RequestHeaders"
                                    THEN msg.metadata_cid ELSE msg.correlation_id,
                      !.last = write_response(handled_cid(msg),
                                              IF msg.parses /\ msg.type # "Configure"
                                              THEN response ELSE AuditCid(FALSE, ""))]
    ELSE [conn EXCEPT !.reads = @ + 1]

EventLoop(msg, response) ==
    /\ conn.pc = "events"
    /\ conn.reads < MaxMessages
    /\ conn' = AfterMessage(msg, response)
    /\ UNCHANGED outsideServer

\* The same turn of the event loop, with the message read and the messages
\* written for it kept in order; accepted is what on_configure answers.
ServeMessage(msg, response, accepted) ==
    /\ conn.pc = "events"
    /\ conn.reads < MaxMessages
    /\ (msg.type = "Configure" /\ msg.parses) \/ accepted
    /\ conn' = AfterMessage(msg, response)
    /\ served' = [inbox |-> Append(served.inbox, msg),
                  outbox |-> served.outbox \o Written(msg, accepted)]
    /\ UNCHANGED outsideServed

\* read_message fails (the peer closed the socket): the connection ends.
ReadFails ==
    /\ conn.pc \in {"handshake", "events"}
    /\ conn' = [conn EXCEPT !.pc = "closed", !.ret = Err(<<"ConnectionClosed">>)]
    /\ UNCHANGED outsideServer

MessageTypes ==
    AnsweredTypes \cup {"HandshakeRequest", "Ping", "Cancel", "Pong"}

Cids == {"c1", "c2"}

\* The event messages a proxy writes: the correlation id is under metadata
\* for request headers and at top level for the other events (a Configure may
\* carry none); the payload may fail to deserialize, or to decode at all.
EventMessages ==
    { EventMessage(type, parses, TRUE,
                   IF type = "RequestHeaders" THEN "" ELSE c,
                   IF type = "RequestHeaders" THEN c ELSE "") :
        type \in MessageTypes, parses \in BOOLEAN, c \in Cids }
    \cup { EventMessage("Configure", TRUE, TRUE, "", "") }
    \cup { EventMessage(type, FALSE, FALSE, "", "") : type \in MessageTypes }

\* What a handler may leave under audit.custom["correlation_id"].
HandlerAudits == { AuditCid(FALSE, ""), AuditCid(TRUE, "c1"), AuditCid(TRUE, "own") }

NextServer ==
    \/ \E type \in MessageTypes, parses \in BOOLEAN,
          offered \in BytesUpTo(MaxEncodings, UdsEncodings),
          success \in BOOLEAN, binary_uds \in BOOLEAN :
            Handshake(type, parses, offered, success, binary_uds)
    \/ \E msg \in EventMessages, response \in HandlerAudits : EventLoop(msg, response)
    \/ ReadFails

SpecServer == Init /\ [][NextServer]_vars

\* A connection whose handshake offers no encoding, and the messages of its
\* event loop: every type, decodable or not, with and without correlation id.
ServedMessages ==
    { msg \in EventMessages : msg.parses \/ "c2" \notin {msg.correlation_id, msg.metadata_cid} }

NextServed ==
    \/ \E success \in BOOLEAN : Handshake("HandshakeRequest", TRUE, <<>>, success, FALSE)
    \/ \E msg \in ServedMessages, response \in HandlerAudits, accepted \in BOOLEAN :
          ServeMessage(msg, response, accepted)
    \/ ReadFails

SpecServed == Init /\ [][NextServed]_vars

\* ------------------------------------------------------- HeadersCow
\* The map is a function from the names present to their sequences of values.
\* HeadersCow::set: insert(name, vec![value]).
set_Appends(inner, name, value) ==
    [x \in DOMAIN inner \cup {name} |->
        IF x = name THEN (IF name \in DOMAIN inner THEN inner[name] ELSE <<>>) \o <<value>>
        ELSE inner[x]]
set(inner, name, value) ==
    [x \in DOMAIN inner \cup {name} |-> IF x = name THEN <<value>> ELSE inner[x]]

\* HeadersCow::add: entry(name).or_default().push(value).
add(inner, name, value) ==
    [x \in DOMAIN inner \cup {name} |->
        IF x = name THEN (IF name \in DOMAIN inner THEN inner[name] ELSE <<>>) \o <<value>>
        ELSE inner[x]]

\* HeadersCow::remove.
remove(inner, name) == [x \in DOMAIN inner \ {name} |-> inner[x]]

HeaderNames == {"accept", "x-new"}
HeaderValues == {"a", "b", "c"}

HeaderSet(name, value) ==
    /\ cow' = [inner |-> set(cow.inner, name, value), before |-> cow.inner, op |-> "set",
               name |-> name, value |-> value]
    /\ UNCHANGED outsideHeaders

HeaderAdd(name, value) ==
    /\ name \in DOMAIN cow.inner => Len(cow.inner[name]) < MaxHeaderValues
    /\ cow' = [inner |-> add(cow.inner, name, value), before |-> cow.inner, op |-> "add",
               name |-> name, value |-> value]
    /\ UNCHANGED outsideHeaders

HeaderRemove(name) ==
    /\ cow' = [inner |-> remove(cow.inner, name), before |-> cow.inner, op |-> "remove",
               name |-> name, value |-> ""]
    /\ UNCHANGED outsideHeaders

NextHeaders ==
    \/ \E name \in HeaderNames, value \in HeaderValues : HeaderSet(name, value)
    \/ \E name \in HeaderNames, value \in HeaderValues : HeaderAdd(name, value)
    \/ \E name \in HeaderNames : HeaderRemove(name)

SpecHeaders == Init /\ [][NextHeaders]_vars

\* ----------------------------------------------------- BodyMutation
\* What the proxy forwards for a chunk under a mutation with the chunk's index:
\* the chunk itself, nothing, or the mutation's data.
apply_mutation(m, original) ==
    IF is_pass_through(m) THEN original
    ELSE IF is_drop(m) THEN ""
    ELSE m.data

ChunkContents == {"", "chunk0", "chunk1", "chunk2"}
MutationData == {"", "REDACTED", "modified content", "new content"}

MakePassThrough(i, original) ==
    /\ forward' = [made |-> "pass_through", index |-> i, mutation |-> pass_through(i), original |-> original,
                   forwarded |-> apply_mutation(pass_through(i), original)]
    /\ UNCHANGED outsideMutation

MakeDropChunk(i, original) ==
    /\ forward' = [made |-> "drop_chunk", index |-> i, mutation |-> drop_chunk(i), original |-> original,
                   forwarded |-> apply_mutation(drop_chunk(i), original)]
    /\ UNCHANGED outsideMutation

MakeReplace(i, data, original) ==
    /\ forward' = [made |-> "replace", index |-> i, mutation |-> replace(i, data), original |-> original,
                   forwarded |-> apply_mutation(replace(i, data), original)]
    /\ UNCHANGED outsideMutation

NextMutation ==
    \/ \E i \in 0..MaxChunkIndex, original \in ChunkContents : MakePassThrough(i, original)
    \/ \E i \in 0..MaxChunkIndex, original \in ChunkContents : MakeDropChunk(i, original)
    \/ \E i \in 0..MaxChunkIndex, data \in MutationData, original \in ChunkContents :
          MakeReplace(i, data, original)

SpecMutation == Init /\ [][NextMutation]_vars

\* -------------------------------------------------- HistogramMetric
RECURSIVE SumOf(_)
SumOf(seq) == IF seq = <<>> THEN 0 ELSE Head(seq) + SumOf(Tail(seq))

\* record: position(|&b| micros <= b).unwrap_or(buckets.len()), 1-based here.
bucket_idx_LastBucket(micros) == Len(HistogramBuckets) + 1
bucket_idx(micros) ==
    IF \E i \in 1..Len(HistogramBuckets) : micros <= HistogramBuckets[i]
    THEN CHOOSE i \in 1..Len(HistogramBuckets) :
            /\ micros <= HistogramBuckets[i]
            /\ \A j \in 1..(i - 1) : ~(micros <= HistogramBuckets[j])
    ELSE Len(HistogramBuckets) + 1

\* record, first atomic step: sum.fetch_add(micros).
RecordSum(r, micros) ==
    /\ hist.rec[r].pc = "idle"
    /\ hist.records < MaxObservations
    /\ hist' = [hist EXCEPT !.sum = @ + micros, !.records = @ + 1,
                             !.rec[r] = [pc |-> "sum_added", micros |-> micros]]
    /\ UNCHANGED outsideHistogram

\* record, second atomic step: count.fetch_add(1).
RecordCount(r) ==
    /\ hist.rec[r].pc = "sum_added"
    /\ hist' = [hist EXCEPT !.count = @ + 1, !.counted = @ + hist.rec[r].micros,
                             !.rec[r].pc = "count_added"]
    /\ UNCHANGED outsideHistogram

\* record, third atomic step: counts[bucket_idx].fetch_add(1); record returns.
RecordBucket(r) ==
    /\ hist.rec[r].pc = "count_added"
    /\ hist' = [hist EXCEPT !.counts[bucket_idx(hist.rec[r].micros)] = @ + 1,
                             !.rec[r] = [pc |-> "idle", micros |-> 0]]
    /\ UNCHANGED outsideHistogram

\* snapshot: the counts are loaded one after the other, in bucket order.
SnapshotLoadBucket ==
    /\ hist.snap.pc \in {"none", "done", "counts"}
    /\ LET sofar == IF hist.snap.pc = "counts" THEN hist.snap.counts ELSE <<>>
           loaded == Append(sofar, hist.counts[Len(sofar) + 1])
       IN hist' = [hist EXCEPT !.snap = [pc |-> IF Len(loaded) = Len(hist.counts)
                                                THEN "sum" ELSE "counts",
                                         counts |-> loaded, sum |-> 0, count |-> 0,
                                         counted |-> 0]]
    /\ UNCHANGED outsideHistogram

\* snapshot: sum.load.
SnapshotLoadSum ==
    /\ hist.snap.pc = "sum"
    /\ hist' = [hist EXCEPT !.snap.sum = hist.sum, !.snap.pc = "count"]
    /\ UNCHANGED outsideHistogram

\* snapshot: count.load; the HistogramSnapshot is returned.
SnapshotLoadCount ==
    /\ hist.snap.pc = "count"
    /\ hist' = [hist EXCEPT !.snap.count = hist.count, !.snap.counted = hist.counted,
                             !.snap.pc = "done"]
    /\ UNCHANGED outsideHistogram

NextHistogram ==
    \/ \E r \in Recorders, micros \in Observations : RecordSum(r, micros)
    \/ \E r \in Recorders : RecordCount(r)
    \/ \E r \in Recorders : RecordBucket(r)
    \/ SnapshotLoadBucket
    \/ SnapshotLoadSum
    \/ SnapshotLoadCount

SpecHistogram == Init /\ [][NextHistogram]_vars

\* -------------------------------------------------- GuardrailProcessor
\* GuardrailProcessor::call_guardrail_agent: the event is traced and an error
\* is returned; the agent manager is not used.
call_guardrail_agent(agent_name) ==
    GuardrailErr(<<"Agent", agent_name, "not configured for guardrail inspection">>)

\* The match of check_prompt_injection on the outcome of the timed call.
prompt_injection_result(config, outcome) ==
    IF outcome.tag = "ok"
    THEN IF outcome.detected
         THEN CASE config.action = "Block" ->
                       GuardrailResult("Blocked", config.block_status,
                           IF config.block_message = <<>>
                           THEN <<"Request blocked: potential prompt injection detected">>
                           ELSE config.block_message)
                [] config.action = "Log" -> GuardrailResult("Detected", 0, <<>>)
                [] OTHER -> GuardrailResult("Warning", 0, <<>>)
         ELSE Clean
    ELSE IF outcome.tag = "err"
    THEN IF config.failure_mode = "Open" THEN Clean
         ELSE GuardrailResult("Blocked", 503, <<"Guardrail check unavailable">>)
    ELSE IF config.failure_mode = "Open" THEN Clean
         ELSE GuardrailResult("Blocked", 504, <<"Guardrail check timed out">>)

\* The match of check_pii on the outcome of the timed call.
pii_result(config, outcome) ==
    IF outcome.tag = "ok"
    THEN IF outcome.detected THEN GuardrailResult("Detected", 0, <<>>) ELSE Clean
    ELSE IF outcome.tag = "err"
    THEN GuardrailResult("Error", 0, outcome.message)
    ELSE GuardrailResult("Error", 0, <<"Agent timeout">>)

\* check_prompt_injection: Clean when disabled; else the event is built, the
\* guardrail agent call is made under the timeout and its outcome matched.
\* detects is what the configured agent would answer for the content.
check_prompt_injection(config, detects) ==
    /\ guard' = [check |-> "prompt_injection", config |-> config, detects |-> detects,
                 outcome |-> IF config.enabled THEN call_guardrail_agent(config.agent)
                             ELSE GuardrailErr(<<>>),
                 result |-> IF config.enabled
                            THEN prompt_injection_result(config,
                                                         call_guardrail_agent(config.agent))
                            ELSE Clean]
    /\ UNCHANGED outsideGuardrails

\* check_pii: the same for the PII check of a response.
check_pii(config, detects) ==
    /\ guard' = [check |-> "pii", config |-> config, detects |-> detects,
                 outcome |-> IF config.enabled THEN call_guardrail_agent(config.agent)
                             ELSE GuardrailErr(<<>>),
                 result |-> IF config.enabled
                            THEN pii_result(config, call_guardrail_agent(config.agent))
                            ELSE Clean]
    /\ UNCHANGED outsideGuardrails

GuardrailConfigs ==
    { GuardrailConfig(enabled, "waf", action, block_status, block_message, failure_mode) :
        enabled \in BOOLEAN, action \in {"Block", "Log", "Warn"},
        block_status \in {400, 403},
        block_message \in { <<>>, <<"no prompt injection here">> },
        failure_mode \in FailureModes }

NextGuardrails ==
    \E config \in GuardrailConfigs, detects \in BOOLEAN :
        \/ check_prompt_injection(config, detects)
        \/ check_pii(config, detects)

SpecGuardrails == Init /\ [][NextGuardrails]_vars

\* ------------------------------------------------ AgentClient (gRPC)
\* Result of build_grpc_request.
Built(request) == [ok |-> TRUE, request |-> request, error |-> <<>>]
NotBuilt(kind, text) == [ok |-> FALSE, request |-> NoRequest, error |-> <<kind, text>>]

\* The payload the manager serializes for an event whose bytes are b: the
\* body-chunk and WebSocket events carry STANDARD.encode(b) in data.
EventPayload(event_type, b) ==
    [data |-> IF event_type \in BodyEvents \cup {"WebSocketFrame"}
              THEN STANDARD_encode(b) ELSE <<>>]

\* build_grpc_request: the first match maps the event type and returns for
\* Configure and GuardrailInspect; the second builds the protobuf event.
build_grpc_request_SecondMatchOnly(event_type, payload_json) ==
    IF event_type = "Configure"
    THEN NotBuilt("InvalidMessage", "Configure event should be handled separately")
    ELSE IF event_type = "GuardrailInspect"
    THEN NotBuilt("InvalidMessage", "GuardrailInspect events are not yet supported via gRPC")
    ELSE Built(GrpcRequest(event_type, payload_json.data))
build_grpc_request(event_type, payload_json) ==
    IF event_type = "Configure"
    THEN NotBuilt("Serialization", "Configure events are not supported via gRPC")
    ELSE IF event_type = "GuardrailInspect"
    THEN NotBuilt("Serialization", "GuardrailInspect events are not yet supported via gRPC")
    ELSE IF event_type \in BodyEvents
    THEN Built(GrpcRequest(event_type, payload_json.data))
    ELSE IF event_type = "WebSocketFrame"
    THEN Built(GrpcRequest(event_type,
                           IF STANDARD_decode(payload_json.data).ok
                           THEN STANDARD_decode(payload_json.data).bytes ELSE <<>>))
    ELSE Built(GrpcRequest(event_type, <<>>))

\* grpc::AgentResponse as the agent sends it; NoDecision is an unset oneof.
NoDecision == [kind |-> "None", status |-> 0, body |-> ""]
GrpcResponse(version, decision) == [version |-> version, decision |-> decision]

\* convert_grpc_response: a missing decision defaults to Allow, the version
\* is copied.
convert_grpc_response(response) ==
    Ok([version |-> response.version,
        decision |-> IF response.decision = NoDecision THEN Allow ELSE response.decision])

\* What client.process_event gives within or without the timeout.
GrpcOutcomes ==
    { [tag |-> "timeout", response |-> GrpcResponse(0, NoDecision)],
      [tag |-> "failed", response |-> GrpcResponse(0, NoDecision)] }
    \cup { [tag |-> "response", response |-> GrpcResponse(v, d)] :
              v \in {PROTOCOL_VERSION, 1}, d \in {NoDecision, Allow, Block(403, "blocked")} }

\* send_event_grpc: build the request, call the agent under the timeout,
\* convert the response.  A request that timed out or failed may or may not
\* have reached the agent.
GrpcSendEvent(event_type, b, outcome, arrived) ==
    /\ grpc.calls < MaxEvents
    /\ LET built == build_grpc_request(event_type, EventPayload(event_type, b)) IN
        grpc' = IF ~built.ok
                THEN [grpc EXCEPT !.calls = @ + 1, !.event_type = event_type, !.chunk = b,
                                  !.request = NoRequest, !.timer = FALSE,
                                  !.reached = FALSE, !.ret = Err(built.error)]
                ELSE [grpc EXCEPT
                        !.calls = @ + 1, !.event_type = event_type, !.chunk = b,
                        !.request = built.request,
                        !.timer = TRUE,
                        !.reached = (outcome.tag = "response" \/ arrived),
                        !.ret = CASE outcome.tag = "timeout" -> Err(<<"Timeout">>)
                                  [] outcome.tag = "failed" ->
                                         Err(<<"ConnectionFailed", "gRPC call failed">>)
                                  [] OTHER -> convert_grpc_response(outcome.response)]
    /\ UNCHANGED outsideGrpc

ChunkBytes == BytesUpTo(MaxChunkLen, {0, 77, 255})

\* The bytes an event of the type may carry.
BytesOf(event_type) ==
    IF event_type \in BodyEvents \cup {"WebSocketFrame"} THEN ChunkBytes ELSE { <<>> }

NextGrpc ==
    \E event_type \in AllEventTypes, outcome \in GrpcOutcomes :
        \E b \in BytesOf(event_type),
           arrived \in IF outcome.tag = "response" THEN {TRUE} ELSE BOOLEAN :
            GrpcSendEvent(event_type, b, outcome, arrived)

SpecGrpc == Init /\ [][NextGrpc]_vars

\* ======================================================= properties
TypeOK ==
    /\ \A a \in Agents : permits[a] \in 0..cfg[a].max_concurrent_calls
    /\ \A c \in Tasks : pc[c] \in {"idle", "running", "done"}

Min(S) == CHOOSE x \in S : \A y \in S : x <= y

\* A manager call that went through the fan-out and has returned.
ParallelDone(c) == pc[c] = "done" /\ path[c] = "parallel" /\ futs[c] # <<>>

\* Positions of the calls that got a response / that failed.
Answered(c) == { i \in DOMAIN futs[c] : futs[c][i].out.tag = "ok" }
Failed(c) == { i \in DOMAIN futs[c] : futs[c][i].out.tag = "err" }
ClosedFailures(c) == { i \in Failed(c) : futs[c][i].failure_mode = "Closed" }

DecisionOf(c, i) == FromResponse(futs[c][i].out.resp)
NonAllow(c) == { i \in Answered(c) : DecisionOf(c, i).action.kind # "Allow" }
Blocks(c) == { i \in Answered(c) : DecisionOf(c, i).action.kind = "Block" }

\* Header operations of the answering agents from position i on, in the order
\* of the filter chain.
RECURSIVE AnsweredOps(_, _)
AnsweredOps(c, i) ==
    IF i > Len(futs[c]) THEN <<>>
    ELSE (IF i \in Answered(c) THEN futs[c][i].out.resp.request_headers ELSE <<>>)
         \o AnsweredOps(c, i + 1)

\* Calls to agent a that were dispatched and have not finished.
InFlight(a) ==
    Cardinality({ p \in Tasks \X (1..Cardinality(Agents)) :
                    /\ p[2] \in DOMAIN futs[p[1]]
                    /\ futs[p[1]][p[2]].agent = a
                    /\ futs[p[1]][p[2]].st = "awaiting" })

\* C1: in the parallel fan-out, when some agent returned a Block decision the
\* manager's return value is Ok of a Block decision exactly as an agent
\* produced it, whatever the other agents did.
C1_BlockIsReturned ==
    \A c \in Tasks :
        (ParallelDone(c) /\ Blocks(c) # {})
            => \E i \in Blocks(c) : result[c] = OkDecision(DecisionOf(c, i))

C3_StrongestDecisionWins ==
    \A c \in Tasks :
        (pc[c] = "done" /\ path[c] \in {"parallel", "sequential"} /\ result[c].tag = "ok")
            => \A i \in Answered(c) :
                  Strength(result[c].decision.action) >= Strength(DecisionOf(c, i).action)

\* C4: the number of dispatched, unfinished calls to an agent never exceeds
\* the agent's max_concurrent_calls.
C4_InFlightWithinLimit ==
    \A a \in Agents : InFlight(a) <= cfg[a].max_concurrent_calls

\* C5: on the parallel and the sequential path, when an agent whose failure
\* mode is Closed failed and no agent returned a non-Allow decision, the call
\* returns Ok of a Block with status 504 for a timeout and 503 otherwise.
C5_FailClosedYieldsBlock ==
    \A c \in Tasks :
        (/\ pc[c] = "done" /\ path[c] \in {"parallel", "sequential"}
         /\ ClosedFailures(c) # {} /\ NonAllow(c) = {})
            => /\ result[c].tag = "ok"
               /\ result[c].decision.action.kind = "Block"
               /\ result[c].decision.action.status =
                     IF futs[c][Min(ClosedFailures(c))].rec = <<"timeout">> THEN 504 ELSE 503

\* The call ended in a block, an error or a WebSocket close.
Blocked(c) ==
    \/ result[c].tag = "err"
    \/ path[c] \in {"parallel", "sequential"} /\ ~is_allow(result[c].decision)
    \/ path[c] = "websocket" /\ result[c].response.websocket_decision.kind = "Close"

WsStops(c) ==
    { i \in Answered(c) : futs[c][i].out.resp.websocket_decision.kind \in {"Drop", "Close"} }

\* C6: for every event kind, when no agent decided otherwise, a call in which
\* an agent failed is blocked if the filter of a failed agent is Closed and is
\* let through if the filters of all failed agents are Open, whatever the
\* agents' own default failure modes.
C6_FilterFailureModeApplies ==
    \A c \in Tasks :
        (/\ pc[c] = "done" /\ path[c] \in {"parallel", "sequential", "websocket"}
         /\ Failed(c) # {} /\ NonAllow(c) = {} /\ WsStops(c) = {})
            => /\ (\E i \in Failed(c) : futs[c][i].filter_failure_mode = "Closed")
                     => Blocked(c)
               /\ (\A i \in Failed(c) : futs[c][i].filter_failure_mode = "Open")
                     => ~Blocked(c)

\* C7: a fan-out in which a fail-closed agent failed and no agent returned a
\* non-Allow decision returns Block 504 "Gateway timeout" exactly when that
\* failure was a timeout and Block 503 otherwise, after all outcomes were
\* examined.
C7_SynthesizedBlockStatus ==
    \A c \in Tasks :
        (ParallelDone(c) /\ ClosedFailures(c) # {} /\ NonAllow(c) = {})
            => /\ idx[c] = Len(futs[c])
               /\ result[c].tag = "ok"
               /\ IF futs[c][Min(ClosedFailures(c))].rec = <<"timeout">>
                  THEN result[c].decision = block(504, "Gateway timeout")
                  ELSE /\ result[c].decision.action.kind = "Block"
                       /\ result[c].decision.action.status = 503

\* C8: a fan-out in which agents failed, all of them under a fail-open filter,
\* and no agent returned a non-Allow decision returns Ok(Allow) with the header
\* operations of exactly the agents that answered.
C8_FailOpenFailuresIgnored ==
    \A c \in Tasks :
        (/\ ParallelDone(c) /\ Failed(c) # {} /\ NonAllow(c) = {}
         /\ \A i \in Failed(c) : futs[c][i].failure_mode = "Open")
            => result[c] = OkDecision(AgentDecision(Allow, AnsweredOps(c, 1)))

\* C8 witness: one agent failed under a fail-open filter, the other answered
\* Allow with header operations, and the call returned them.
C8_OpenFailureBesideAnswer ==
    \E c \in Tasks :
        /\ ParallelDone(c) /\ Failed(c) # {} /\ Answered(c) # {} /\ NonAllow(c) = {}
        /\ \A i \in Failed(c) : futs[c][i].failure_mode = "Open"
        /\ result[c].tag = "ok" /\ result[c].decision.request_headers # <<>>

\* C9: when every answering agent of a fan-out returned Allow, the merged
\* decision holds the header operations of all of them, each agent's in the
\* order it returned them and the agents in filter-chain order, and it is the
\* result unless a fail-closed agent failed.
C9_AllowMergeInChainOrder ==
    \A c \in Tasks :
        (ParallelDone(c) /\ NonAllow(c) = {})
            => /\ combined[c].request_headers = AnsweredOps(c, 1)
               /\ ClosedFailures(c) = {} => result[c] = OkDecision(combined[c])

\* C9 witness: the second agent of the chain answered before the first, and
\* the result lists the first agent's operations before the second's.
C9_SecondAgentAnsweredFirst ==
    \E c \in Tasks :
        /\ ParallelDone(c) /\ Len(futs[c]) = 2 /\ Answered(c) = {1, 2} /\ NonAllow(c) = {}
        /\ futs[c][2].nth = 1
        /\ result[c] = OkDecision(AgentDecision(Allow,
                           OpsOf(futs[c][1].agent) \o OpsOf(futs[c][2].agent)))

\* What a completed call must have recorded on the breaker.
ExpectedRecord(f) ==
    IF f.out.tag = "ok" THEN <<"success">>
    ELSE IF f.out.reason = CircuitOpenReason THEN <<>>
    ELSE IF f.out.reason = TimeoutReason THEN <<"timeout">>
    ELSE <<"failure">>

\* C10: every dispatched agent call records exactly one outcome on the breaker
\* - success for a response, failure for an error, timeout for a timeout - and
\* a call that was not dispatched or has not finished records nothing.
C10_OneBreakerRecordPerCall ==
    /\ \A c \in Tasks : \A i \in DOMAIN futs[c] :
          futs[c][i].rec = IF futs[c][i].st = "done" THEN ExpectedRecord(futs[c][i]) ELSE <<>>
    /\ \A a \in Agents :
          recorded[a].success + recorded[a].failure + recorded[a].timeout + InFlight(a)
              = delivered[a]

\* C10 witness: a call timed out and the agent's breaker has one timeout and
\* nothing else on record.
C10_TimeoutRecordedOnce ==
    \E c \in Tasks : \E i \in DOMAIN futs[c] :
        /\ futs[c][i].st = "done" /\ futs[c][i].out.reason = TimeoutReason
        /\ futs[c][i].rec = <<"timeout">>
        /\ recorded[futs[c][i].agent] = [success |-> 0, failure |-> 0, timeout |-> 1]

\* The step takes call i of task c from the queue to the breaker check.
ReachesBreakerCheck(c, i) ==
    /\ pc[c] = "running"
    /\ i \in DOMAIN futs[c] /\ futs[c][i].st = "queued"
    /\ i \in DOMAIN futs'[c] /\ futs'[c][i].st # "queued"

\* What the paths that call one agent after the other do with an open breaker
\* at call i: block, or go on to the next agent.
OpenBreakerResolved(c, i) ==
    LET closed == futs[c][i].failure_mode = "Closed"
        last == i = Len(futs[c])
    IN  CASE path[c] = "sequential" ->
                IF closed
                THEN pc'[c] = "done"
                     /\ result'[c] = OkDecision(block(503, "Service unavailable"))
                ELSE IF last THEN pc'[c] = "done" /\ result'[c] = OkDecision(combined[c])
                ELSE pc'[c] = "running" /\ idx'[c] = i + 1
          [] path[c] = "websocket" ->
                IF closed
                THEN pc'[c] = "done"
                     /\ result'[c] = OkResponse(websocket_close(1011, "Service unavailable"))
                ELSE IF last THEN pc'[c] = "done" /\ result'[c] = OkResponse(websocket_allow)
                ELSE pc'[c] = "running" /\ idx'[c] = i + 1
          [] path[c] = "guardrail" ->
                pc'[c] = "done" /\ result'[c] = ErrResult(GuardrailCircuitOpen)
          [] OTHER -> pc'[c] = "running"

\* The fan-out returns: a fail-closed call that met an open breaker, no agent
\* having decided otherwise and no fail-closed call having failed before it,
\* yields the 503 block.
OpenBreakerJoined(c) ==
    (/\ pc[c] = "running" /\ path[c] = "parallel" /\ pc'[c] = "done"
     /\ NonAllow(c) = {} /\ ClosedFailures(c) # {}
     /\ futs[c][Min(ClosedFailures(c))].out.reason = CircuitOpenReason)
        => result'[c] = OkDecision(block(503, "Service unavailable"))

\* C11: on every dispatch path a call that reaches the breaker check while the
\* agent's breaker is not Closed hands no event to the agent, records nothing
\* on the breaker and ends with the circuit-breaker-open outcome, which the
\* failure mode then resolves (block / close / error, or go on without the
\* agent).
C11_OpenBreakerSkipsAgent ==
    [][\A c \in Tasks :
          /\ \A i \in DOMAIN futs[c] :
                (ReachesBreakerCheck(c, i) /\ ~is_closed(futs[c][i].agent)) =>
                    /\ futs'[c][i].st = "done"
                    /\ futs'[c][i].out = ErrOutcome(CircuitOpenReason)
                    /\ futs'[c][i].rec = <<>>
                    /\ futs'[c][i].sent = NoPayload
                    /\ delivered' = delivered /\ recorded' = recorded /\ breaker' = breaker
                    /\ OpenBreakerResolved(c, i)
          /\ OpenBreakerJoined(c)]_vars

\* C11 witness: a call of the sequential path met an open breaker and the
\* manager blocked with 503 without the agent having been handed the event.
C11_OpenBreakerBlocked ==
    \E c \in Tasks :
        /\ pc[c] = "done" /\ path[c] = "sequential" /\ idx[c] \in DOMAIN futs[c]
        /\ futs[c][idx[c]].out = ErrOutcome(CircuitOpenReason)
        /\ futs[c][idx[c]].rec = <<>>
        /\ breaker[futs[c][idx[c]].agent].state = "Open"
        /\ result[c] = OkDecision(block(503, "Service unavailable"))

\* Calls that hold a permit of agent a.
PermitHolders(a) ==
    Cardinality({ p \in Tasks \X (1..Cardinality(Agents)) :
                    /\ p[2] \in DOMAIN futs[p[1]]
                    /\ futs[p[1]][p[2]].agent = a
                    /\ futs[p[1]][p[2]].permit })

\* No manager call is between its start and its return.
NoCallInProgress == \A c \in Tasks : pc[c] # "running"

\* Every permit taken from a semaphore is held by a call that is awaiting its
\* agent; with no manager call in progress every semaphore is full.
PermitsReleased ==
    /\ \A a \in Agents : permits[a] + PermitHolders(a) = cfg[a].max_concurrent_calls
    /\ \A c \in Tasks : \A i \in DOMAIN futs[c] :
          futs[c][i].permit => (pc[c] = "running" /\ futs[c][i].st = "awaiting")
    /\ NoCallInProgress => \A a \in Agents : permits[a] = cfg[a].max_concurrent_calls

\* A step of one agent call within a manager call: Queued -> (ErrorCircuit |
\* Awaiting), Awaiting -> (Returned | ErrorTimeout | ErrorTransport); a
\* terminal call does not change.  (Dispatching, the permit taken and the
\* breaker not yet checked, lies within the step that leaves Queued.)
CallStateMachine(c, i) ==
    LET f == futs[c][i]
        g == futs'[c][i]
    IN  CASE f.st = "queued" ->
                \/ g = f
                \/ g.st = "awaiting" /\ g.out = NoOutcome
                \/ g.st = "done" /\ g.out = ErrOutcome(CircuitOpenReason)
          [] f.st = "awaiting" ->
                \/ g = f
                \/ g.st = "done" /\ g.out.tag \in {"ok", "err"}
                   /\ g.out # ErrOutcome(CircuitOpenReason)
          [] OTHER -> g = f

\* C12: every agent call moves Queued -> Dispatching -> (ErrorCircuit |
\* Awaiting -> (Returned | ErrorTimeout | ErrorTransport)), a call holds a
\* permit only while it awaits its agent, and whenever no manager call is in
\* progress every agent's semaphore has all its max_concurrent_calls permits.
C12_PermitReleasedOnEveryOutcome ==
    /\ []PermitsReleased
    /\ [][\A c \in Tasks : \A i \in DOMAIN futs[c] :
             i \in DOMAIN futs'[c] => CallStateMachine(c, i)]_vars

\* C12 witness: a manager call returned early with the block of a timed-out
\* fail-closed agent, no call is in progress and every semaphore is full.
C12_FullAfterEarlyReturn ==
    /\ NoCallInProgress
    /\ \A a \in Agents : permits[a] = cfg[a].max_concurrent_calls
    /\ \E c \in Tasks :
          /\ pc[c] = "done" /\ path[c] = "sequential" /\ Len(futs[c]) = 2
          /\ futs[c][1].rec = <<"timeout">> /\ futs[c][2].st = "queued"
          /\ result[c] = OkDecision(block(504, "Gateway timeout"))

Called(c) ==
    { i \in DOMAIN futs[c] :
        \/ futs[c][i].st = "awaiting"
        \/ futs[c][i].st = "done" /\ futs[c][i].out # ErrOutcome(CircuitOpenReason) }

\* C14: in the sequential dispatch an agent is called only after every agent
\* before it in the route's list has finished, it is handed the chunk with the
\* chunk_index the caller passed, and no agent is called after one whose
\* response was Block, Redirect or Challenge.
C14_OneAtATimeUntilDecision ==
    \A c \in Tasks :
        path[c] = "sequential" =>
            \A i \in Called(c) :
                /\ futs[c][i].sent = payload[c]
                /\ \A j \in 1..(i - 1) :
                      /\ futs[c][j].st = "done"
                      /\ j \notin NonAllow(c)
                /\ i \in NonAllow(c) =>
                      /\ pc[c] = "done"
                      /\ result[c] = OkDecision(DecisionOf(c, i))

\* C14 witness: the first agent blocked chunk 1 and the second agent of the
\* chain was never called.
C14_ChainStoppedAtBlock ==
    \E c \in Tasks :
        /\ pc[c] = "done" /\ path[c] = "sequential" /\ Len(futs[c]) = 2
        /\ payload[c].chunk_index = 1 /\ futs[c][1].sent.chunk_index = 1
        /\ NonAllow(c) = {1} /\ futs[c][2].st = "queued"
        /\ result[c] = OkDecision(block(403, "blocked"))

\* The mutation of answer i replaces or drops the chunk of the call.
Mutates(c, i) ==
    /\ i \in Answered(c)
    /\ futs[c][i].out.resp.request_body_mutation.some
    /\ futs[c][i].out.resp.request_body_mutation.has_data
    /\ futs[c][i].out.resp.request_body_mutation.chunk_index = payload[c].chunk_index

\* The bytes of the chunk once the mutations of agents 1..i are applied.
RECURSIVE ChunkAfter(_, _)
ChunkAfter(c, i) ==
    IF i = 0 THEN payload[c].data
    ELSE IF Mutates(c, i) THEN futs[c][i].out.resp.request_body_mutation.data
    ELSE ChunkAfter(c, i - 1)

\* C15: in a sequential body-chunk dispatch every agent is handed the chunk as
\* the mutations of the agents before it left it.
C15_LaterAgentsSeeMutatedChunk ==
    \A c \in Tasks :
        (path[c] = "sequential" /\ event[c] \in BodyEvents) =>
            \A i \in Called(c) : futs[c][i].sent.data = ChunkAfter(c, i - 1)

\* C16: an answer to a body-chunk event whose BodyMutation names another
\* chunk_index than the event is an error outcome of the call, never a
\* response (and so is never merged into the decision).
C16_MismatchedMutationIsError ==
    \A c \in Tasks :
        (path[c] = "sequential" /\ event[c] \in BodyEvents) =>
            \A i \in Answered(c) :
                futs[c][i].out.resp.request_body_mutation.some =>
                    futs[c][i].out.resp.request_body_mutation.chunk_index
                        = futs[c][i].sent.chunk_index

\* The step hands call i of task c to its agent.
Hands(c, i) == ReachesBreakerCheck(c, i) /\ futs'[c][i].st = "awaiting"

\* C17: the chunk_index values of the request body chunks handed to an agent
\* for one request start at 0 and strictly increase.
C17_ChunkIndexStrictlyIncreases ==
    [][\A c \in Tasks : \A i \in DOMAIN futs[c] :
          (Hands(c, i) /\ event[c] = "RequestBodyChunk") =>
              IF last_chunk[c][futs[c][i].agent] = -1
              THEN futs'[c][i].sent.chunk_index = 0
              ELSE futs'[c][i].sent.chunk_index > last_chunk[c][futs[c][i].agent]]_vars

\* C18: process_websocket_frame calls an agent only after every agent before
\* it has finished and none of them answered Drop or Close; the response of
\* the first agent that answers Drop or Close is returned as it is; when no
\* agent answered Drop or Close and no fail-closed agent failed, the result
\* is a WebSocket Allow.
C18_FirstDropOrCloseReturned ==
    \A c \in Tasks :
        path[c] = "websocket" =>
            /\ \A i \in Called(c) : \A j \in 1..(i - 1) :
                  futs[c][j].st = "done" /\ j \notin WsStops(c)
            /\ WsStops(c) # {} =>
                  /\ pc[c] = "done"
                  /\ result[c] = OkResponse(futs[c][Min(WsStops(c))].out.resp)
            /\ (pc[c] = "done" /\ WsStops(c) = {} /\ ClosedFailures(c) = {}) =>
                  result[c] = OkResponse(websocket_allow)

\* C18 witness: the first agent answered Close{1008, "policy"}, the manager
\* returned that response and the second agent was not called.
C18_ClosePolicyReturned ==
    \E c \in Tasks :
        /\ pc[c] = "done" /\ path[c] = "websocket" /\ Len(futs[c]) = 2
        /\ WsStops(c) = {1} /\ futs[c][2].st = "queued"
        /\ result[c] = OkResponse(AgentResponse(Allow, <<>>, WsClose(1008, "policy")))

\* C19: a WebSocket frame of a route is handed only to agents that are named
\* in the route's filter chain.
C19_FrameOnlyToRouteAgents ==
    \A c \in Tasks :
        path[c] = "websocket" =>
            \A i \in Called(c) : futs[c][i].filter_failure_mode # "None"

\* C20: the response send_event returns is the agent's reply to the event of
\* that very call, also after an earlier call on the connection timed out.
C20_ResponseBelongsToCall ==
    (client.pc = "returned" /\ client.ret.tag = "ok")
        => client.ret.response.of = client.event

\* C21: on both transports a response send_event returns as Ok carries the
\* protocol version in use; a response of another version is rejected.
C21_ReturnedResponseHasProtocolVersion ==
    /\ (client.ret.tag = "ok" => client.ret.response.version = PROTOCOL_VERSION)
    /\ (grpc.ret.tag = "ok" => grpc.ret.response.version = PROTOCOL_VERSION)

\* C22: a request of at most 10 MiB is written whole and one of 10 MiB + 1 is
\* refused with MessageTooLarge before any byte is written; a response whose
\* length prefix is at most 10 MiB has its payload read and one of 10 MiB + 1
\* is refused with MessageTooLarge before any byte of the payload is read.
C22_TenMiBIsTheLargestMessage ==
    /\ client.size > 10485760 =>
          /\ client.pc = "returned"
          /\ client.ret = Err(<<"MessageTooLarge", client.size, 10485760>>)
          /\ client.wrote = 0
    /\ (client.calls > 0 /\ client.size <= 10485760) =>
          client.wrote = PrefixLen + client.size
    /\ client.prefix > 10485760 =>
          /\ client.ret = Err(<<"MessageTooLarge", client.prefix, 10485760>>)
          /\ client.read = 0
    /\ (client.prefix >= 0 /\ client.prefix <= 10485760) =>
          /\ client.read = client.prefix
          /\ client.ret.error \notin { <<"MessageTooLarge", n, 10485760>> : n \in MessageSizes }

C22_TenMiBSentAndReceived ==
    /\ client.size = 10485760
    /\ client.prefix = 10485760
    /\ client.ret.tag = "ok"

\* C23: the data of a body-chunk event built for the gRPC transport are the
\* raw bytes of the chunk the manager was handed.
C23_GrpcChunkCarriesRawBytes ==
    (grpc.request.some /\ grpc.event_type \in BodyEvents)
        => grpc.request.data = grpc.chunk

\* C24: binary -> JSON -> binary gives back the event, data and every other
\* field; a JSON event whose data is not valid base64 converts to a binary
\* event whose data are the bytes of the string, the other fields unchanged.
C24_BodyChunkRoundTrip ==
    /\ conv.op = "round_trip" => conv.output = conv.input
    /\ (conv.op = "from_json" /\ ~STANDARD_decode(conv.input.data).ok)
          => conv.output = conv.input
    /\ conv.op = "from_json"
          => [conv.output EXCEPT !.data = <<>>] = [conv.input EXCEPT !.data = <<>>]

C24_InvalidBase64KeptAsBytes ==
    /\ conv.op = "from_json"
    /\ conv.input.data = <<65, 61, 33>>
    /\ conv.output.data = <<65, 61, 33>>

\* C25: a Configure or GuardrailInspect event sent over gRPC returns a
\* Serialization error that names the event; no request is built or reaches
\* the agent and no timeout is started.
C25_UnsupportedGrpcEventsFailFast ==
    /\ grpc.event_type = "Configure" =>
          /\ grpc.ret = Err(<<"Serialization", "Configure events are not supported via gRPC">>)
          /\ ~grpc.request.some /\ ~grpc.reached /\ ~grpc.timer
    /\ grpc.event_type = "GuardrailInspect" =>
          /\ grpc.ret = Err(<<"Serialization",
                              "GuardrailInspect events are not yet supported via gRPC">>)
          /\ ~grpc.request.some /\ ~grpc.reached /\ ~grpc.timer

C25_GuardrailInspectAfterACall ==
    /\ grpc.event_type = "GuardrailInspect"
    /\ grpc.calls = 2
    /\ grpc.ret.tag = "err"

\* C26: an event reaches the handler only after a first message that was a
\* HandshakeRequest the handler accepted; any other first message ends the
\* connection with InvalidMessage and nothing written; after a rejected
\* handshake the HandshakeResponse is the only message written, the
\* connection is closed and nothing more is read from it.
C26_HandshakePrecedesEvents ==
    /\ conn.events > 0 => (conn.first = "HandshakeRequest" /\ conn.success)
    /\ conn.handshakes <= 1
    /\ (conn.reads > 0 /\ conn.first # "HandshakeRequest") =>
          /\ conn.pc = "closed" /\ conn.ret = Err(<<"InvalidMessage">>)
          /\ conn.reads = 1 /\ conn.written = 0 /\ conn.events = 0
    /\ (conn.handshakes = 1 /\ ~conn.success) =>
          /\ conn.pc = "closed" /\ conn.ret.tag = "ok"
          /\ conn.reads = 1 /\ conn.events = 0 /\ conn.written = 1
          /\ conn.last.type = "HandshakeResponse" /\ ~conn.last.success

C26_RejectedHandshakeClosed ==
    /\ conn.pc = "closed"
    /\ conn.handshakes = 1
    /\ ~conn.success
    /\ conn.last.type = "HandshakeResponse"

\* C27: every AgentResponse the server writes carries under
\* audit.custom["correlation_id"] the correlation id of the event it answers
\* (the one under metadata for request headers), whatever the handler put
\* under that key.
C27_ResponseTaggedWithEventCid ==
    conn.last.type = "AgentResponse"
        => conn.last.audit_cid = AuditCid(TRUE, conn.event_cid)

C27_SecondEventTagged ==
    /\ conn.last.type = "AgentResponse"
    /\ conn.events = 2
    /\ conn.event_cid = "c2"
    /\ conn.last.audit_cid.value = "c2"

\* C28: the negotiated encoding is the first of the proxy's list that the
\* build supports, JSON when there is none; a build without binary support
\* negotiates JSON for every list.
SupportedAt ==
    { i \in 1..Len(conn.offered) :
        conn.offered[i] \in (IF conn.binary_uds THEN UdsEncodings ELSE {"Json"}) }

C28_FirstSupportedEncoding ==
    conn.handshakes = 1 =>
        /\ conn.encoding = IF SupportedAt = {} THEN "Json"
                           ELSE conn.offered[CHOOSE i \in SupportedAt :
                                                \A j \in SupportedAt : i <= j]
        /\ conn.last.type = "HandshakeResponse" => conn.last.encoding = conn.encoding
        /\ ~conn.binary_uds => conn.encoding = "Json"

C28_MessagePackFirstWithoutBinary ==
    /\ conn.handshakes = 1
    /\ ~conn.binary_uds
    /\ conn.offered = <<"MessagePack", "Json">>
    /\ conn.encoding = "Json"

\* C29: for both guardrail checks, when the agent call fails or times out
\* the configured failure mode decides: Open gives Clean, Closed gives a block
\* with status 503 (error) or 504 (timeout).
C29_GuardrailFailureModeHonoured ==
    (guard.check # "none" /\ guard.config.enabled /\ guard.outcome.tag # "ok") =>
        IF guard.config.failure_mode = "Open"
        THEN guard.result = Clean
        ELSE /\ guard.result.kind = "Blocked"
             /\ guard.result.status = IF guard.outcome.tag = "err" THEN 503 ELSE 504

\* C30: a disabled prompt-injection check is Clean without any agent being
\* contacted; an enabled one hands a GuardrailInspect event to the configured
\* agent and maps its answer: not detected to Clean, detected to Blocked (with
\* the configured status), Detected or Warning after the configured action.
C30_PromptInjectionMapsAgentAnswer ==
    guard.check = "prompt_injection" =>
        IF ~guard.config.enabled
        THEN guard.result = Clean /\ delivered[guard.config.agent] = 0
        ELSE /\ delivered[guard.config.agent] > 0
             /\ guard.result.kind =
                    IF ~guard.detects THEN "Clean"
                    ELSE CASE guard.config.action = "Block" -> "Blocked"
                           [] guard.config.action = "Log" -> "Detected"
                           [] OTHER -> "Warning"
             /\ guard.result.kind = "Blocked" => guard.result.status = guard.config.block_status

\* C31: Set leaves exactly the one value under the name and a repeated Set
\* changes nothing; Add puts the value after the values the name had, in their
\* order, creating the name if absent; Remove deletes the name and a repeated
\* Remove changes nothing; no operation touches another name.
OtherNamesKept ==
    \A x \in HeaderNames \ {cow.name} :
        /\ x \in DOMAIN cow.inner <=> x \in DOMAIN cow.before
        /\ x \in DOMAIN cow.inner => cow.inner[x] = cow.before[x]

C31_HeaderOpsLaws ==
    /\ cow.op # "none" => OtherNamesKept
    /\ cow.op = "set" =>
          /\ cow.name \in DOMAIN cow.inner /\ cow.inner[cow.name] = <<cow.value>>
          /\ (cow.name \in DOMAIN cow.before /\ cow.before[cow.name] = <<cow.value>>)
                => cow.inner = cow.before
    /\ cow.op = "add" =>
          LET old == IF cow.name \in DOMAIN cow.before THEN cow.before[cow.name] ELSE <<>> IN
          /\ cow.name \in DOMAIN cow.inner
          /\ Len(cow.inner[cow.name]) = Len(old) + 1
          /\ SubSeq(cow.inner[cow.name], 1, Len(old)) = old
          /\ cow.inner[cow.name][Len(old) + 1] = cow.value
    /\ cow.op = "remove" =>
          /\ cow.name \notin DOMAIN cow.inner
          /\ cow.name \notin DOMAIN cow.before => cow.inner = cow.before

C31_SetOverTwoValues ==
    /\ cow.op = "set"
    /\ cow.name \in DOMAIN cow.before
    /\ Len(cow.before[cow.name]) = 2
    /\ cow.inner[cow.name] = <<cow.value>>

\* C32: pass_through(i) is pass-through and not drop and forwards the original
\* bytes; drop_chunk(i) is drop and not pass-through and forwards nothing;
\* replace(i, d) with non-empty d is neither and forwards d; each keeps the
\* chunk index it was given; a mutation is never both pass-through and drop.
C32_MutationKinds ==
    LET m == forward.mutation IN
    /\ ~(is_pass_through(m) /\ is_drop(m))
    /\ forward.made # "none" => m.some /\ m.chunk_index = forward.index
    /\ forward.made = "pass_through" =>
          /\ is_pass_through(m) /\ ~is_drop(m)
          /\ forward.forwarded = forward.original
    /\ forward.made = "drop_chunk" =>
          /\ is_drop(m) /\ ~is_pass_through(m)
          /\ forward.forwarded = ""
    /\ (forward.made = "replace" /\ m.data # "") =>
          /\ ~is_pass_through(m) /\ ~is_drop(m)
          /\ forward.forwarded = m.data

C32_ReplaceOverChunk ==
    /\ forward.made = "replace"
    /\ forward.mutation.data = "REDACTED"
    /\ forward.mutation.chunk_index = 1
    /\ forward.original = "chunk1"
    /\ forward.forwarded = "REDACTED"

\* C38: every snapshot a histogram returns is consistent: its bucket counts
\* add up to its count, and its sum is the total of the observations its
\* count stands for, also when observations are recorded meanwhile.
C38_SnapshotConsistent ==
    hist.snap.pc = "done" =>
        /\ SumOf(hist.snap.counts) = hist.snap.count
        /\ hist.snap.sum = hist.snap.counted

\* C33: no task holds the read lock of the agent map while it waits for an
\* agent's response or for a permit.
C33_NoAgentMapLockAcrossAwait ==
    \A c \in Tasks :
        HoldsAgentsRead(c) =>
            \A i \in DOMAIN futs[c] : futs[c][i].st # "awaiting"

\* C34: on every dispatch path the calls of a manager call are for agents the
\* route names, that are configured and that declare the event; when the route
\* leaves none, the call returns Allow (a WebSocket Allow for a frame) at once,
\* with no permit taken, no breaker consulted and no agent called.
RouteAgents(route, event_type) ==
    { relevant_agents(route, event_type)[k].id : k \in DOMAIN relevant_agents(route, event_type) }

OnlyRouteAgents(c, route, event_type, allow) ==
    /\ \A i \in DOMAIN futs'[c] : futs'[c][i].agent \in RouteAgents(route, event_type)
    /\ RouteAgents(route, event_type) = {} =>
          /\ futs'[c] = <<>>
          /\ pc'[c] = "done"
          /\ result'[c] = allow
          /\ UNCHANGED <<permits, breaker, recorded, delivered>>

C34_OmittedAgentsNotCalled ==
    [][\A c \in Tasks, route \in OmittedRoutes :
          /\ StartRequestHeaders(c, route)
                => OnlyRouteAgents(c, route, "RequestHeaders", OkDecision(default_allow))
          /\ \A event_type \in SequentialEvents :
                (\E chunk \in ChunksFor(event_type, {FirstChunk}) :
                    StartSequential(c, event_type, chunk, route))
                   => OnlyRouteAgents(c, route, event_type, OkDecision(default_allow))
          /\ (\E S \in SUBSET Agents : \E order \in Orders(S) :
                  StartWebSocketFrame(c, route, order))
                => OnlyRouteAgents(c, route, "WebSocketFrame", OkResponse(websocket_allow))]_vars

\* C37: two handlings of a frame in which no agent failed and no breaker was
\* open, each agent giving its one answer, return the same decision and call
\* the same agents.
C37_FrameResultIgnoresMapOrder ==
    \A c, d \in Tasks :
        (/\ pc[c] = "done" /\ path[c] = "websocket" /\ Failed(c) = {}
         /\ pc[d] = "done" /\ path[d] = "websocket" /\ Failed(d) = {})
        => /\ result[c] = result[d]
           /\ { futs[c][i].agent : i \in Called(c) } = { futs[d][i].agent : i \in Called(d) }

\* C36: a buffered request body of at most 1 MiB reaches the agents as one
\* chunk with chunk_index 0 and bytes_received equal to its length; a larger
\* body is never answered Allow without an agent having been called.
C36_BufferedBodyInspected ==
    \A c \in Tasks :
        /\ (path[c] = "sequential" /\ event[c] = "RequestBodyChunk") =>
              /\ payload[c].chunk_index = 0
              /\ payload[c].bytes_received <= max_size
              /\ \A i \in Called(c) : futs[c][i].sent = payload[c]
        /\ (path[c] = "oversized" /\ pc[c] = "done") =>
              ~(result[c] = OkDecision(default_allow) /\ Called(c) = {})

\* C35: a call that reaches the breaker check while the agent's breaker is
\* HalfOpen is dispatched to the agent as a trial call.
C35_HalfOpenDispatchesTrial ==
    [][\A c \in Tasks : \A i \in DOMAIN futs[c] :
          (ReachesBreakerCheck(c, i) /\ breaker[futs[c][i].agent].state = "HalfOpen")
             => /\ futs'[c][i].st = "awaiting"
                /\ delivered'[futs[c][i].agent] = delivered[futs[c][i].agent] + 1]_vars

\* The messages of the event loop that call for an answer, and the number of
\* them among the first p messages read.
Answerable(msg) == msg.type = "Ping" \/ msg.type \in AnsweredTypes
Rank(p) == Cardinality({ q \in 1..p : Answerable(served.inbox[q]) })

\* C39: the messages written in the event loop answer the messages read, one
\* for one and in the order read: a Pong echoing the payload for each Ping, an
\* AgentResponse tagged with the event's correlation id for each event, and
\* nothing for a Cancel or any other message type.
C39_AnswersInReadOrder ==
    /\ Len(served.outbox) = Rank(Len(served.inbox))
    /\ \A p \in DOMAIN served.inbox :
          Answerable(served.inbox[p]) =>
              LET out == served.outbox[Rank(p)] IN
              IF served.inbox[p].type = "Ping"
              THEN out.type = "Pong" /\ out.echo = served.inbox[p]
              ELSE out.type = "AgentResponse" /\ out.cid = handled_cid(served.inbox[p])

C39_EventAnsweredAfterCancel ==
    /\ Len(served.inbox) = 2
    /\ served.inbox[1].type = "Cancel" /\ served.inbox[1].correlation_id = "c1"
    /\ served.inbox[2].type = "RequestBodyChunk" /\ served.inbox[2].correlation_id = "c1"
    /\ served.inbox[2].parses
    /\ Len(served.outbox) = 1
    /\ served.outbox[1].type = "AgentResponse" /\ served.outbox[1].handled

\* C40: an event whose payload does not deserialize is answered, without the
\* handler being called, by a default Allow (a WebSocket Allow for a frame)
\* tagged with the correlation id extracted from the payload ("" when none);
\* the connection stays open for the next message.
C40_UndecodableEventAllowed ==
    /\ \A p \in DOMAIN served.inbox :
          (served.inbox[p].type \in AnsweredTypes /\ ~served.inbox[p].parses) =>
              LET out == served.outbox[Rank(p)] IN
              /\ out.type = "AgentResponse"
              /\ ~out.handled
              /\ out.decision = IF served.inbox[p].type = "WebSocketFrame"
                                THEN "websocket_allow" ELSE "default_allow"
              /\ out.cid = extract_correlation_id(served.inbox[p])
    /\ conn.events = Cardinality({ p \in DOMAIN served.inbox :
                                     served.inbox[p].type \in AnsweredTypes /\ served.inbox[p].parses })
    /\ (conn.pc = "closed" /\ served.inbox # <<>>) => conn.ret = Err(<<"ConnectionClosed">>)

C40_NextEventHandledAfterUndecodable ==
    /\ conn.pc = "events"
    /\ Len(served.inbox) = 2
    /\ served.inbox[1].type = "WebSocketFrame" /\ ~served.inbox[1].readable
    /\ served.outbox[1].decision = "websocket_allow" /\ served.outbox[1].cid = ""
    /\ served.inbox[2].type = "RequestHeaders" /\ served.inbox[2].parses
    /\ served.outbox[2].handled /\ served.outbox[2].cid = "c2"
    /\ conn.events = 1

====
